---------------------------- MODULE Spec2Model ----------------------------
(***************************************************************************)
(* Model of the wide-to-long normalisation code of the hospital price      *)
(* loaders: wide_to_tall.py (to_tall and its helpers) and                  *)
(* load-csv-database.py (melt_and_normalize and its helpers).              *)
(*                                                                         *)
(* Python strings are TLA+ strings, taken apart with Head, Tail, SubSeq    *)
(* and Len and put together with \o.  Python's None is the empty tuple     *)
(* and a present optional value v is <<v>>.  A local variable of the code  *)
(* that is read more than once is the parameter of an operator holding the *)
(* rest of the function, so each function reads as a chain of operators.   *)
(***************************************************************************)
EXTENDS Integers, Sequences, FiniteSets, TLC

VARIABLES
    df,      \* the parsed table handed to the melt: [columns, rows]
    phase,   \* "input" while the table is read, then the function that ran
    out,     \* what that function returned and reported
    hdr,     \* a raw column name (header-level specification)
    hwords,  \* the number of words hdr is made of
    hphase,  \* "build" while the name is read, "parsed" after the resolvers ran
    hres     \* the resolvers' answers for hdr

vars == <<df, phase, out, hdr, hwords, hphase, hres>>

(***************************************************************************)
(* Python str and re primitives                                            *)
(***************************************************************************)
Ch(s, i) == SubSeq(s, i, i)

Lowers == "abcdefghijklmnopqrstuvwxyz"
Uppers == "ABCDEFGHIJKLMNOPQRSTUVWXYZ"
Digits == "0123456789"

CharsOf(s) == { Ch(s, i) : i \in 1..Len(s) }

LowerOf == [c \in CharsOf(Uppers) |->
              Ch(Lowers, CHOOSE i \in 1..Len(Uppers) : Ch(Uppers, i) = c)]
UpperOf == [c \in CharsOf(Lowers) |->
              Ch(Uppers, CHOOSE i \in 1..Len(Lowers) : Ch(Lowers, i) = c)]

CasedChars == CharsOf(Lowers) \cup CharsOf(Uppers)
\* \w of the re module
WordChars  == CasedChars \cup CharsOf(Digits) \cup {"_"}

IsSpace(c)  == c \in {" ", "\t"}
IsCased(c)  == c \in CasedChars
IsDigit(c)  == c \in CharsOf(Digits)
IsWordCh(c) == c \in WordChars

LowerCh(c) == IF c \in DOMAIN LowerOf THEN LowerOf[c] ELSE c
UpperCh(c) == IF c \in DOMAIN UpperOf THEN UpperOf[c] ELSE c

RECURSIVE Lower(_)
Lower(s) == IF s = "" THEN "" ELSE LowerCh(Head(s)) \o Lower(Tail(s))

RECURSIVE Upper(_)
Upper(s) == IF s = "" THEN "" ELSE UpperCh(Head(s)) \o Upper(Tail(s))

RECURSIVE LStrip(_)
LStrip(s) == IF s # "" /\ IsSpace(Head(s)) THEN LStrip(Tail(s)) ELSE s

RECURSIVE RStrip(_)
RStrip(s) ==
    IF s # "" /\ IsSpace(Ch(s, Len(s)))
    THEN RStrip(SubSeq(s, 1, Len(s) - 1))
    ELSE s

Strip(s) == RStrip(LStrip(s))

\* s.replace(c, r) for a one-character c
RECURSIVE ReplaceCh(_, _, _)
ReplaceCh(s, c, r) ==
    IF s = "" THEN ""
    ELSE (IF Head(s) = c THEN r ELSE Head(s)) \o ReplaceCh(Tail(s), c, r)

StartsWith(s, p) == Len(s) >= Len(p) /\ SubSeq(s, 1, Len(p)) = p

\* p occurs in s at index i
OccursAt(s, p, i) ==
    i >= 1 /\ i + Len(p) - 1 <= Len(s) /\ SubSeq(s, i, i + Len(p) - 1) = p

\* the first index from i on at which p occurs in s, 0 when there is none
RECURSIVE FindFrom(_, _, _)
FindFrom(s, p, i) ==
    IF i + Len(p) - 1 > Len(s) THEN 0
    ELSE IF OccursAt(s, p, i) THEN i
    ELSE FindFrom(s, p, i + 1)

\* s.find(p) as a 1-based index, 0 when p does not occur
Find(s, p) == FindFrom(s, p, 1)

\* s.split(p, 1)[0], and s.split(p, 1)[1] where p occurs, cut at index at
HeadAt(s, at) == IF at = 0 THEN s ELSE SubSeq(s, 1, at - 1)
SplitHead(s, p) == HeadAt(s, Find(s, p))
SplitRest(s, p) == SubSeq(s, Find(s, p) + Len(p), Len(s))

\* the index after the run of whitespace that starts at i
RECURSIVE SkipSpace(_, _)
SkipSpace(s, i) ==
    IF i <= Len(s) /\ IsSpace(Ch(s, i)) THEN SkipSpace(s, i + 1) ELSE i

\* re.sub(r"\s*\|\s*", "|", s): a run of whitespace (from i up to j) that
\* touches a pipe goes
RECURSIVE PipeSub(_, _)
PipeRun(s, i, j) ==
    IF (j <= Len(s) /\ Ch(s, j) = "|") \/ (i > 1 /\ Ch(s, i - 1) = "|")
    THEN PipeSub(s, j)
    ELSE SubSeq(s, i, j - 1) \o PipeSub(s, j)

PipeSub(s, i) ==
    IF i > Len(s) THEN ""
    ELSE IF IsSpace(Ch(s, i)) THEN PipeRun(s, i, SkipSpace(s, i))
    ELSE Ch(s, i) \o PipeSub(s, i + 1)

\* re.sub(r"\s+", " ", s)
RECURSIVE CollapseSpace(_, _)
CollapseSpace(s, i) ==
    IF i > Len(s) THEN ""
    ELSE IF IsSpace(Ch(s, i))
         THEN " " \o CollapseSpace(s, SkipSpace(s, i))
         ELSE Ch(s, i) \o CollapseSpace(s, i + 1)

\* re.sub(r"[_\-|]+", " ", s)
RECURSIVE SepSub(_)
SepSub(s) ==
    IF s = "" THEN ""
    ELSE IF Head(s) \in {"_", "-", "|"}
         THEN (IF Len(s) > 1 /\ Ch(s, 2) \in {"_", "-", "|"} THEN "" ELSE " ")
              \o SepSub(Tail(s))
         ELSE Head(s) \o SepSub(Tail(s))

\* str.title(): a cased character is upper after an uncased one, lower after
\* a cased one
RECURSIVE TitleFrom(_, _)
TitleFrom(s, prevCased) ==
    IF s = "" THEN ""
    ELSE IF IsCased(Head(s))
         THEN (IF prevCased THEN LowerCh(Head(s)) ELSE UpperCh(Head(s)))
              \o TitleFrom(Tail(s), TRUE)
         ELSE Head(s) \o TitleFrom(Tail(s), FALSE)

Title(s) == TitleFrom(s, FALSE)

\* str(n) for a natural number n
RECURSIVE IntToStr(_)
IntToStr(n) ==
    IF n < 10 THEN Ch(Digits, n + 1)
    ELSE IntToStr(n \div 10) \o Ch(Digits, (n % 10) + 1)

None == <<>>
Some(v) == <<v>>

\* dict.get(k) as an optional value
MapGet(map, k) == IF k \in DOMAIN map THEN Some(map[k]) ELSE None

Range(seq) == { seq[i] : i \in 1..Len(seq) }

Min(a, b) == IF a <= b THEN a ELSE b

(***************************************************************************)
(* Header normalisation (both files define the same normalize_header,      *)
(* make_unique and base_name)                                              *)
(***************************************************************************)
\* a normalisation that turns dashes into spaces after the strip
normalize_header_dash_space(col) ==
    CollapseSpace(PipeSub(ReplaceCh(Lower(Strip(col)), "-", " "), 1), 1)

normalize_header(col) ==
    CollapseSpace(PipeSub(ReplaceCh(Lower(Strip(col)), "-", "_"), 1), 1)

RECURSIVE CountIn(_, _)
CountIn(seq, n) ==
    IF seq = <<>> THEN 0
    ELSE (IF Head(seq) = n THEN 1 ELSE 0) + CountIn(Tail(seq), n)

\* the name make_unique gives to a name n seen `seen` times before
UniqueName(n, seen) == IF seen = 0 THEN n ELSE n \o "__" \o IntToStr(seen)

make_unique(cols) ==
    [i \in 1..Len(cols) |->
        UniqueName(cols[i], CountIn(SubSeq(cols, 1, i - 1), cols[i]))]

base_name(name) == SplitHead(name, "__")

(***************************************************************************)
(* Price-header resolution of wide_to_tall.py                              *)
(***************************************************************************)
PRICE_TYPE_MAP ==
    [k \in {"gross", "gross_charge", "gross_charges", "discounted_cash", "cash",
            "negotiated_dollar", "negotiated_rate", "payer_specific",
            "contracted_rate", "allowed_amount", "percentage",
            "negotiated_percentage", "min", "max"} |->
        CASE k \in {"gross", "gross_charge", "gross_charges"} -> "chargemaster"
          [] k \in {"discounted_cash", "cash"} -> "cash"
          [] k \in {"negotiated_dollar", "negotiated_rate", "payer_specific",
                    "contracted_rate", "allowed_amount"} -> "negotiated"
          [] k \in {"percentage", "negotiated_percentage"} -> "percentage"
          [] k = "min" -> "min"
          [] k = "max" -> "max"]

\* p, between two word boundaries (\b), starts at index i of c
WordAt(c, p, i) ==
    /\ OccursAt(c, p, i)
    /\ (i = 1 \/ ~IsWordCh(Ch(c, i - 1)))
    /\ (i + Len(p) - 1 = Len(c) \/ ~IsWordCh(Ch(c, i + Len(p))))

\* the words the keyword pattern
\* (?:\bnegotiated\b|\bpayer(?:[_ ]?specific)?\b|\ballowed\b|\bcontracted\b)
\* matches
KeywordForms ==
    {"negotiated", "payer", "payerspecific", "payer_specific", "payer specific",
     "allowed", "contracted"}

KeywordAt(c, i) == \E p \in KeywordForms : WordAt(c, p, i)

\* re.search / re.split of the keyword pattern: the leftmost index from i on
\* that it matches at, 0 when there is none
RECURSIVE KeywordFrom(_, _)
KeywordFrom(c, i) ==
    IF i > Len(c) THEN 0
    ELSE IF KeywordAt(c, i) THEN i
    ELSE KeywordFrom(c, i + 1)

KeywordSearch(c) == KeywordFrom(c, 1)

\* lines 131-137: the payer read out of m[0], the text before the keyword
PayerFromRaw(raw) == IF raw # "" THEN Some(Title(raw)) ELSE None

HeuristicPayer(m0) ==
    IF Strip(m0) # ""
    THEN PayerFromRaw(Strip(CollapseSpace(SepSub(m0), 1)))
    ELSE None

\* lines 111-113: canonical "standard_charge|suffix"
SuffixType(c) ==
    IF StartsWith(c, "standard_charge|") \/ StartsWith(c, "standard charge|")
    THEN MapGet(PRICE_TYPE_MAP, SplitRest(c, "|"))
    ELSE None

\* lines 116-117: bare standard_charge
BareType(c, ptype) ==
    IF ptype = None /\ c \in {"standard_charge", "standard charge"}
    THEN Some("chargemaster") ELSE ptype

\* lines 120-123: bare aliases
AliasType(c, ptype) ==
    IF ptype = None THEN MapGet(PRICE_TYPE_MAP, ReplaceCh(c, " ", "_")) ELSE ptype

\* lines 126-141: the keyword heuristic, at being where the keyword matches
HeuristicAt(c, at) ==
    IF at = 0
    THEN [ptype |-> None, payer |-> None, plan |-> None]
    ELSE [ptype |-> Some("negotiated"),
          payer |-> HeuristicPayer(SubSeq(c, 1, at - 1)),
          plan  |-> None]

HeuristicType(c, ptype) ==
    IF ptype = None THEN HeuristicAt(c, KeywordSearch(c))
    ELSE [ptype |-> ptype, payer |-> None, plan |-> None]

\* parse_price_header from line 106 on, c being the normalized base name
ParseBase(c) == HeuristicType(c, AliasType(c, BareType(c, SuffixType(c))))

parse_price_header(colname) == ParseBase(base_name(normalize_header(colname)))

\* one entry of detect_wide_price_columns, None for a column without price type
PriceSpec(col, parsed) ==
    IF parsed.ptype = None THEN None
    ELSE Some([col |-> col, ptype |-> parsed.ptype[1],
               payer |-> parsed.payer, plan |-> parsed.plan])

\* the present values of a sequence of optional values, in order
RECURSIVE Flatten(_)
Flatten(opts) == IF opts = <<>> THEN <<>> ELSE Head(opts) \o Flatten(Tail(opts))

\* [(colname, price_type, payer, plan), ...] in column order
detect_wide_price_columns(cols) ==
    Flatten([i \in 1..Len(cols) |-> PriceSpec(cols[i], parse_price_header(cols[i]))])

(***************************************************************************)
(* Charge-column resolution of load-csv-database.py                        *)
(***************************************************************************)
LOAD_PRICE_TYPE_MAP ==
    [k \in {"gross", "gross_charge", "gross_charges", "discounted_cash",
            "negotiated_dollar", "negotiated_percentage", "min", "max"} |->
        CASE k \in {"gross", "gross_charge", "gross_charges"} -> "chargemaster"
          [] k = "discounted_cash" -> "cash"
          [] k = "negotiated_dollar" -> "negotiated"
          [] k = "negotiated_percentage" -> "percentage"
          [] k = "min" -> "min"
          [] k = "max" -> "max"]

\* is_charge_col from line 62 on, c being the normalized name
ChargeName(c) ==
    \/ c \in {"standard_charge", "standard charge"}
    \/ StartsWith(c, "standard_charge|")
    \/ StartsWith(c, "standard charge|")
    \/ ReplaceCh(c, " ", "_") \in
          {"gross", "gross_charge", "gross_charges", "chargemaster",
           "discounted_cash", "negotiated_dollar", "negotiated_percentage",
           "min", "max"}

is_charge_col(col) == ChargeName(normalize_header(col))

\* lines 78-90: the suffix of a name without a pipe
BareSuffix(bare) ==
    IF bare \in {"gross", "gross_charge", "gross_charges", "chargemaster",
                 "standard_charge"} THEN "gross"
    ELSE IF bare = "discounted_cash" THEN "discounted_cash"
    ELSE IF bare = "negotiated_dollar" THEN "negotiated_dollar"
    ELSE IF bare = "negotiated_percentage" THEN "negotiated_percentage"
    ELSE IF bare \in {"min", "max"} THEN bare
    ELSE "gross"

\* PRICE_TYPE_MAP.get(suffix, "chargemaster")
LoadTypeOf(suffix) ==
    IF suffix \in DOMAIN LOAD_PRICE_TYPE_MAP
    THEN LOAD_PRICE_TYPE_MAP[suffix] ELSE "chargemaster"

\* col_to_price_type_from_name from line 75 on, b being the name without __N
LoadSuffix(b) ==
    IF Find(b, "|") # 0 THEN SplitRest(b, "|")
    ELSE BareSuffix(ReplaceCh(b, " ", "_"))

col_to_price_type_from_name(col) == LoadTypeOf(LoadSuffix(SplitHead(col, "__")))

(***************************************************************************)
(* Price cleanup.  PyFloatStr is str(float(v)) on the decimal literals and *)
(* special values float() accepts: optional surrounding whitespace, an     *)
(* optional sign, digits with at most one point (one digit at least), or   *)
(* nan, inf, infinity in any letter case.  A literal of at most 15         *)
(* significant digits prints as itself with leading and trailing zeros     *)
(* removed; the cells of this model are shorter than that.  Exponent       *)
(* literals and digit-group underscores are not in the grammar here and no *)
(* cell of the model holds one.                                            *)
(***************************************************************************)
IsDigits(s) == \A i \in 1..Len(s) : IsDigit(Ch(s, i))

RECURSIVE LStripZeros(_)
LStripZeros(s) == IF s # "" /\ Head(s) = "0" THEN LStripZeros(Tail(s)) ELSE s

RECURSIVE RStripZeros(_)
RStripZeros(s) ==
    IF s # "" /\ Ch(s, Len(s)) = "0"
    THEN RStripZeros(SubSeq(s, 1, Len(s) - 1))
    ELSE s

\* repr of a float below 1e-4: mantissa digits mant after zeros zero digits
ExpRepr(sign, mant, zeros) ==
    sign \o Head(mant) \o (IF Len(mant) > 1 THEN "." \o Tail(mant) ELSE "")
         \o "e-" \o (IF zeros + 1 < 10 THEN "0" ELSE "") \o IntToStr(zeros + 1)

\* repr of the float with integer digits i2 (no leading zero) and fraction
\* digits f2 (no trailing zero)
FloatRepr(sign, i2, f2) ==
    IF i2 = "" /\ f2 # "" /\ Len(f2) - Len(LStripZeros(f2)) >= 4
    THEN ExpRepr(sign, LStripZeros(f2), Len(f2) - Len(LStripZeros(f2)))
    ELSE sign \o (IF i2 = "" THEN "0" ELSE i2) \o "." \o (IF f2 = "" THEN "0" ELSE f2)

\* the decimal literal with integer part ip and fraction part fp
FloatDecimal(sign, ip, fp) ==
    IF IsDigits(ip) /\ IsDigits(fp) /\ Len(ip) + Len(fp) > 0
    THEN Some(FloatRepr(sign, LStripZeros(ip), RStripZeros(fp)))
    ELSE None

\* the literal body after its sign, its point at index dot (0: no point)
FloatBody(sign, body, dot) ==
    IF Lower(body) = "nan" THEN Some("nan")
    ELSE IF Lower(body) \in {"inf", "infinity"} THEN Some(sign \o "inf")
    ELSE FloatDecimal(sign, HeadAt(body, dot),
                      IF dot = 0 THEN "" ELSE SubSeq(body, dot + 1, Len(body)))

FloatSigned(s) ==
    IF s # "" /\ Head(s) \in {"+", "-"}
    THEN FloatBody(IF Head(s) = "-" THEN "-" ELSE "", Tail(s), Find(Tail(s), "."))
    ELSE FloatBody("", s, Find(s, "."))

\* str(float(v)), or None where float(v) raises ValueError
PyFloatStr(v) == FloatSigned(Strip(v))

OrBlank(opt) == IF opt = None THEN "" ELSE opt[1]

\* to_numeric from its second line on, v being the stripped cell
NumericOf(v, ptype) ==
    IF v = "" THEN ""
    ELSE OrBlank(PyFloatStr(IF ptype = "percentage" THEN ReplaceCh(v, "%", "") ELSE v))

\* a cleanup that keeps the stripped text of the cell as it is written
to_numeric_as_text(val, ptype) == Strip(val)

\* to_numeric, the nested function of to_tall and of melt_and_normalize
to_numeric(val, ptype) == NumericOf(Strip(val), ptype)

NormUpper(t) ==
    IF t \in {"CPT®", "CPT-4", "CPT4"} THEN "CPT"
    ELSE IF t \in {"HCPCS", "HCPCS-CODE"} THEN "HCPCS"
    ELSE IF t \in {"DRG", "MS-DRG", "MSDRG"} THEN "DRG"
    ELSE IF t \in {"ICD", "ICD10", "ICD-10"} THEN "ICD10"
    ELSE t

\* norm_type, the nested function of to_tall and of melt_and_normalize
norm_type(t) == NormUpper(Upper(Strip(t)))

(***************************************************************************)
(* Tables.  A DataFrame is [columns |-> sequence of names, rows |->        *)
(* sequence of rows], a row being a sequence of cells, one per column;     *)
(* every cell is a string (the readers use dtype=str and fillna("")).      *)
(***************************************************************************)
\* the position of the column called name
ColIndex(cols, name) ==
    CHOOSE i \in 1..Len(cols) :
        cols[i] = name /\ \A j \in 1..(i - 1) : cols[j] # name

\* the cells of data row r under the columns named in names
RowDict(cols, r, names) == [c \in Range(names) |-> r[ColIndex(cols, c)]]

DESC_ALIASES ==
    {"description", "service_description", "procedure_description",
     "item_description", "long_description", "short_description",
     "charge_description", "standard_charge_description",
     "display_description", "name", "label"}

\* the first column, in table order, whose base name is one of names
RECURSIVE first_existing(_, _)
first_existing(cols, names) ==
    IF cols = <<>> THEN None
    ELSE IF base_name(Head(cols)) \in names THEN Some(Head(cols))
    ELSE first_existing(Tail(cols), names)

\* row maps the names of candidates to cells, all of them strings, so the
\* second loop of the code finds nothing the first one did not
RECURSIVE coalesce_first(_, _)
coalesce_first(row, candidates) ==
    IF candidates = <<>> THEN ""
    ELSE IF Strip(row[Head(candidates)]) # "" THEN Strip(row[Head(candidates)])
    ELSE coalesce_first(row, Tail(candidates))

\* present(df_, names) of to_tall and of melt_and_normalize
present(columns, names) == SelectSeq(names, LAMBDA n : n \in Range(columns))

\* long_df.get(col, "") and col_or_blank for an optional column name
Get(row, col) == IF col = None THEN "" ELSE row[col[1]]

\* line 186
IsExpectedHeader(h) ==
    \/ StartsWith(h, "standard_charge")
    \/ h \in {"code", "code|1", "code|1|type", "payer_name", "plan_name"}

\* a header test that knows the standard_charge prefix only
has_standard_charge(head) ==
    \E i \in 1..Len(head) : StartsWith(normalize_header(head[i]), "standard_charge")

has_any_expected(head) ==
    \E i \in 1..Len(head) : IsExpectedHeader(normalize_header(head[i]))

\* lines 194-196: the <<column, cell>> pairs of the non-blank cells of row r
MetaRow(columns, r) ==
    SelectSeq([i \in 1..Len(columns) |-> <<columns[i], r[i]>>],
              LAMBDA kv : Strip(kv[2]) # "")

\* lines 192-198
MetaRows(d) ==
    SelectSeq([i \in 1..Min(2, Len(d.rows)) |-> MetaRow(d.columns, d.rows[i])],
              LAMBDA m : m # <<>>)

\* lines 200-205
BannerSplit(d, meta_rows) ==
    IF meta_rows = <<>> THEN [df |-> d, metadata |-> <<>>]
    ELSE [df |-> [columns |-> d.columns,
                  rows |-> IF Len(d.rows) > 2
                           THEN SubSeq(d.rows, 3, Len(d.rows)) ELSE <<>>],
          metadata |-> meta_rows]

\* The blob is the list under "header_rows" of the JSON text: one entry per
\* captured row, each the <<column, cell>> pairs of its non-blank cells.
\* The empty list stands for the empty string the code returns for "no blob".
maybe_top_metadata(d) ==
    IF d.rows = <<>> \/ d.columns = <<>> \/ has_any_expected(d.columns)
    THEN [df |-> d, metadata |-> <<>>]
    ELSE BannerSplit(d, MetaRows(d))

\* a resolution that lets the header payer win over the explicit column
PayerHeaderFirst(explicit, from_header) ==
    IF from_header # None THEN from_header[1] ELSE explicit

\* step 8 of to_tall: the explicit column wins, the header fills an empty cell
\* (a None from the header becomes a missing value and then "")
PayerOrHeader(explicit, from_header) ==
    IF explicit = "" /\ from_header # None THEN from_header[1] ELSE explicit

\* a filter that forgets the price
UsableCodes(rec) == Strip(rec.code) # "" /\ Strip(rec.code_type) # ""

\* step 11 of to_tall and the last step of melt_and_normalize
Usable(rec) ==
    Strip(rec.code) # "" /\ Strip(rec.code_type) # "" /\ Strip(rec.price_amount) # ""

\* the three filter columns are stored stripped
Stripped3(rec) ==
    [rec EXCEPT !.code = Strip(rec.code), !.code_type = Strip(rec.code_type),
                !.price_amount = Strip(rec.price_amount)]

\* pd.melt raises when a label is both an id_var and a value_var (the frame
\* handed to it then holds that label twice)
MeltRaises(id_vars, value_vars) == Range(id_vars) \cap Range(value_vars) # {}

\* lines 210-212 (and 130-132 of load-csv-database.py)
UniqueIfRepeated(ncols) ==
    IF Cardinality(Range(ncols)) # Len(ncols) THEN make_unique(ncols) ELSE ncols

NormalizedColumns(columns) ==
    UniqueIfRepeated([i \in 1..Len(columns) |-> normalize_header(columns[i])])

(***************************************************************************)
(* to_tall of wide_to_tall.py.  The result records what the function       *)
(* returns (rows) and reports (dropped), and the frames it works through:  *)
(* the id and price columns, the data rows handed to the melt (data), the  *)
(* melted frame before the filter (tall, one record per price column and   *)
(* data row, price column by price column as pd.melt lays them out, and    *)
(* raw, its price_amount_raw column) and the filter mask (keep).           *)
(***************************************************************************)
NoResult ==
    [raised |-> FALSE, columns |-> <<>>, id_cols |-> <<>>, price_cols |-> <<>>,
     price_specs |-> <<>>, nrows |-> 0, data |-> <<>>, metadata |-> <<>>,
     raw |-> <<>>, tall |-> <<>>, keep |-> <<>>, rows |-> <<>>, dropped |-> 0]

\* lines 220-238: the candidate names of each pick
IdCandidates ==
    [col_code1      |-> {"code|1", "code"},
     col_code1_type |-> {"code|1|type", "code_type"},
     col_code2      |-> {"code|2"},
     col_code2_type |-> {"code|2|type"},
     col_payer      |-> {"payer_name"},
     col_plan       |-> {"plan_name"},
     col_bclass     |-> {"billing_class"},
     col_setting    |-> {"setting"},
     col_currency   |-> {"currency"},
     col_eff_date   |-> {"effective_date", "start_date"},
     col_exp_date   |-> {"expires_on", "end_date"},
     col_modifiers  |-> {"modifiers"},
     col_desc       |-> DESC_ALIASES,
     col_drug_uom   |-> {"drug_unit_of_measurement"},
     col_drug_type  |-> {"drug_type_of_measurement"},
     col_neg_algo   |-> {"standard_charge|negotiated_algorithm", "negotiated_algorithm"},
     col_method     |-> {"standard_charge|methodology", "methodology"},
     col_est_amt    |-> {"estimated_amount"},
     col_add_notes  |-> {"additional_generic_notes"}]

\* lines 240-246: the order the picks enter id_cols in
IdOrder ==
    <<"col_code1", "col_code1_type", "col_code2", "col_code2_type",
      "col_payer", "col_plan", "col_bclass", "col_setting",
      "col_currency", "col_eff_date", "col_exp_date", "col_desc",
      "col_modifiers", "col_drug_uom", "col_drug_type", "col_neg_algo",
      "col_method", "col_est_amt", "col_add_notes">>

\* step 3: every pick, None where no column answers
PickIdColumns(cols) ==
    [k \in DOMAIN IdCandidates |-> first_existing(cols, IdCandidates[k])]

IdCols(pick) == Flatten([i \in 1..Len(IdOrder) |-> pick[IdOrder[i]]])

\* steps 6-10: the record of the melted frame for the price column of spec
\* and the data row whose id cells are row and whose price cell is raw
TallRecord(row, raw, spec, pick, id_cols, metadata, hospital_name) ==
    [hospital_name |-> hospital_name,
     code        |-> coalesce_first(row,
                        present(id_cols, <<"code|1", "code|2", "code|3", "code|4", "code">>)),
     code_type   |-> norm_type(coalesce_first(row,
                        present(id_cols, <<"code|1|type", "code|2|type", "code|3|type",
                                           "code|4|type", "code_type">>))),
     code_2      |-> Get(row, pick.col_code2),
     code_2_type |-> Get(row, pick.col_code2_type),
     price_type  |-> spec.ptype,
     price_amount |-> to_numeric(raw, spec.ptype),
     payer_name  |-> PayerOrHeader(Get(row, pick.col_payer), spec.payer),
     plan_name   |-> PayerOrHeader(Get(row, pick.col_plan), spec.plan),
     billing_class  |-> Get(row, pick.col_bclass),
     currency       |-> Get(row, pick.col_currency),
     effective_date |-> Get(row, pick.col_eff_date),
     expires_on     |-> Get(row, pick.col_exp_date),
     description    |-> Get(row, pick.col_desc),
     modifiers      |-> Get(row, pick.col_modifiers),
     drug_unit_of_measurement |-> Get(row, pick.col_drug_uom),
     drug_type_of_measurement |-> Get(row, pick.col_drug_type),
     negotiated_algorithm     |-> Get(row, pick.col_neg_algo),
     estimated_amount         |-> Get(row, pick.col_est_amt),
     methodology              |-> Get(row, pick.col_method),
     additional_generic_notes |-> Get(row, pick.col_add_notes),
     metadata    |-> metadata,
     source_hint |-> "wide_to_tall"]

\* pd.melt: record k of the melted frame is price column ((k-1) div N) + 1
\* against data row ((k-1) mod N) + 1
MeltedRecord(d, spec, r, pick, id_cols, metadata, hospital_name) ==
    Stripped3(TallRecord(RowDict(d.columns, r, id_cols),
                         r[ColIndex(d.columns, spec.col)],
                         spec, pick, id_cols, metadata, hospital_name))

\* the price_amount_raw column pd.melt builds
MeltedRaw(d, price_cols) ==
    [k \in 1..(Len(price_cols) * Len(d.rows)) |->
        d.rows[((k - 1) % Len(d.rows)) + 1]
              [ColIndex(d.columns, price_cols[((k - 1) \div Len(d.rows)) + 1])]]

\* step 11: the mask, the returned rows and the dropped count
TallFilter(base, tall) ==
    [base EXCEPT !.tall = tall,
                 !.raw = MeltedRaw([columns |-> base.columns, rows |-> base.data],
                                   base.price_cols),
                 !.keep = [k \in 1..Len(tall) |-> Usable(tall[k])],
                 !.rows = SelectSeq(tall, Usable),
                 !.dropped = Len(tall) - Len(SelectSeq(tall, Usable))]

\* steps 4-11, the picks being made
TallMelt(d, metadata, pick, id_cols, price_specs, hospital_name, base) ==
    IF price_specs = <<>> THEN base
    ELSE IF MeltRaises(id_cols, base.price_cols)
    THEN [base EXCEPT !.raised = TRUE]
    ELSE TallFilter(base,
            [k \in 1..(Len(price_specs) * Len(d.rows)) |->
                MeltedRecord(d, price_specs[((k - 1) \div Len(d.rows)) + 1],
                             d.rows[((k - 1) % Len(d.rows)) + 1],
                             pick, id_cols, metadata, hospital_name)])

\* what the function knows before the melt
TallBase(d, metadata, id_cols, price_specs) ==
    [NoResult EXCEPT !.columns = d.columns, !.id_cols = id_cols,
                     !.price_cols = [i \in 1..Len(price_specs) |-> price_specs[i].col],
                     !.price_specs = price_specs, !.nrows = Len(d.rows),
                     !.data = d.rows, !.metadata = metadata]

TallPicked(d, metadata, pick, id_cols, price_specs, hospital_name) ==
    TallMelt(d, metadata, pick, id_cols, price_specs, hospital_name,
             TallBase(d, metadata, id_cols, price_specs))

\* steps 3-4, mt being what maybe_top_metadata returned
TallSplit(mt, pick, hospital_name) ==
    TallPicked(mt.df, mt.metadata, pick, IdCols(pick),
               detect_wide_price_columns(mt.df.columns), hospital_name)

TallFrame(mt, hospital_name) ==
    TallSplit(mt, PickIdColumns(mt.df.columns), hospital_name)

to_tall(d0, hospital_name) ==
    TallFrame(maybe_top_metadata([columns |-> NormalizedColumns(d0.columns),
                                  rows |-> d0.rows]),
              hospital_name)

(***************************************************************************)
(* melt_and_normalize of load-csv-database.py.  Same result record as      *)
(* to_tall; id_cols holds use_cols and price_cols holds charge_cols.  The  *)
(* notes field is the list of <<key, value>> pairs of the JSON text, the   *)
(* empty list standing for the empty string.                               *)
(***************************************************************************)
\* lines 144-164: the candidate names of each pick
LoadIdCandidates ==
    [col_code        |-> {"code|1", "code"},
     col_code_type   |-> {"code|1|type", "code_type"},
     col_code2       |-> {"code|2"},
     col_code2_type  |-> {"code|2|type"},
     col_payer_name  |-> {"payer_name"},
     col_plan_name   |-> {"plan_name"},
     col_bclass      |-> {"billing_class"},
     col_setting     |-> {"setting"},
     col_currency    |-> {"currency"},
     col_eff_date    |-> {"effective_date", "start_date"},
     col_exp_date    |-> {"expires_on", "end_date"},
     col_desc_hint   |-> {"description"},
     col_modifiers   |-> {"modifiers"},
     col_drug_uom    |-> {"drug_unit_of_measurement"},
     col_drug_type   |-> {"drug_type_of_measurement"},
     col_neg_algo    |-> {"standard_charge|negotiated_algorithm", "negotiated_algorithm"},
     col_method      |-> {"standard_charge|methodology", "methodology"},
     col_est_amt     |-> {"estimated_amount"},
     col_add_notes   |-> {"additional_generic_notes"},
     col_metadata    |-> {"metadata"}]

\* lines 168-174: the order the picks enter use_cols in
LoadIdOrder ==
    <<"col_code", "col_code_type", "col_code2", "col_code2_type",
      "col_payer_name", "col_plan_name", "col_bclass", "col_setting",
      "col_currency", "col_eff_date", "col_exp_date", "col_desc_hint",
      "col_modifiers", "col_drug_uom", "col_drug_type", "col_neg_algo",
      "col_method", "col_est_amt", "col_add_notes", "col_metadata">>

\* pick_first over every pick, None where no column answers
LoadPickColumns(cols) ==
    [k \in DOMAIN LoadIdCandidates |-> first_existing(cols, LoadIdCandidates[k])]

\* lines 175-176: a name enters use_cols once
AppendNew(seq, x) == IF x \in Range(seq) THEN seq ELSE Append(seq, x)

RECURSIVE Dedupe(_)
Dedupe(seq) ==
    IF seq = <<>> THEN <<>>
    ELSE AppendNew(Dedupe(SubSeq(seq, 1, Len(seq) - 1)), seq[Len(seq)])

UseCols(pick) == Dedupe(Flatten([i \in 1..Len(LoadIdOrder) |-> pick[LoadIdOrder[i]]]))

\* lines 272-276: pack_notes over the renamed columns
pack_notes(row, pick) ==
    SelectSeq(<< <<"description", Get(row, pick.col_desc_hint)>>,
                 <<"setting", Get(row, pick.col_setting)>>,
                 <<"modifiers", Get(row, pick.col_modifiers)>> >>,
              LAMBDA kv : Strip(kv[2]) # "")

\* lines 203-306: the record of the melted frame for a charge column of price
\* type ptype and the data row whose id cells are row and price cell is raw
LoadRecord(row, raw, ptype, pick, use_cols, hospital_name) ==
    [hospital_name |-> hospital_name,
     code        |-> coalesce_first(row,
                        present(use_cols, <<"code|1", "code|2", "code|3", "code|4", "code">>)),
     code_type   |-> norm_type(coalesce_first(row,
                        present(use_cols, <<"code|1|type", "code|2|type", "code|3|type",
                                            "code|4|type", "code_type">>))),
     code_2      |-> Get(row, pick.col_code2),
     code_2_type |-> Get(row, pick.col_code2_type),
     payer_name  |-> Get(row, pick.col_payer_name),
     plan_name   |-> Get(row, pick.col_plan_name),
     billing_class  |-> Get(row, pick.col_bclass),
     price_type  |-> ptype,
     price_amount |-> to_numeric(raw, ptype),
     currency       |-> Get(row, pick.col_currency),
     effective_date |-> Get(row, pick.col_eff_date),
     expires_on     |-> Get(row, pick.col_exp_date),
     description    |-> Get(row, pick.col_desc_hint),
     modifiers      |-> Get(row, pick.col_modifiers),
     drug_unit_of_measurement |-> Get(row, pick.col_drug_uom),
     drug_type_of_measurement |-> Get(row, pick.col_drug_type),
     negotiated_algorithm     |-> Get(row, pick.col_neg_algo),
     estimated_amount         |-> Get(row, pick.col_est_amt),
     methodology              |-> Get(row, pick.col_method),
     additional_generic_notes |-> Get(row, pick.col_add_notes),
     metadata    |-> Get(row, pick.col_metadata),
     notes       |-> pack_notes(row, pick)]

LoadMeltedRecord(d, charge_col, r, pick, use_cols, hospital_name) ==
    Stripped3(LoadRecord(RowDict(d.columns, r, use_cols),
                         r[ColIndex(d.columns, charge_col)],
                         col_to_price_type_from_name(charge_col),
                         pick, use_cols, hospital_name))

\* lines 178-315, the picks being made
LoadMelt(d, pick, use_cols, charge_cols, hospital_name, base) ==
    IF charge_cols = <<>> THEN base
    ELSE IF MeltRaises(use_cols, charge_cols)
    THEN [base EXCEPT !.raised = TRUE]
    ELSE TallFilter(base,
            [k \in 1..(Len(charge_cols) * Len(d.rows)) |->
                LoadMeltedRecord(d, charge_cols[((k - 1) \div Len(d.rows)) + 1],
                                 d.rows[((k - 1) % Len(d.rows)) + 1],
                                 pick, use_cols, hospital_name)])

LoadBase(d, use_cols, charge_cols) ==
    [NoResult EXCEPT !.columns = d.columns, !.id_cols = use_cols,
                     !.price_cols = charge_cols, !.nrows = Len(d.rows),
                     !.data = d.rows]

LoadPicked(d, pick, use_cols, charge_cols, hospital_name) ==
    LoadMelt(d, pick, use_cols, charge_cols, hospital_name,
             LoadBase(d, use_cols, charge_cols))

LoadSplit(d, pick, hospital_name) ==
    LoadPicked(d, pick, UseCols(pick), SelectSeq(d.columns, is_charge_col),
               hospital_name)

LoadFrame(d, hospital_name) == LoadSplit(d, LoadPickColumns(d.columns), hospital_name)

melt_and_normalize(d0, hospital_name) ==
    LoadFrame([columns |-> NormalizedColumns(d0.columns), rows |-> d0.rows],
              hospital_name)

(***************************************************************************)
(* The amount cleaner of hospital-loader_charge_long-loads-csvs.py, the    *)
(* loader of already long files: None for a blank or sentinel cell.        *)
(***************************************************************************)
SENTINEL_NULLS ==
    {"na", "n/a", "none", "null", "nan", "not disclosed", "not_disclosed",
     "not available", "n.a."}

SENTINEL_BIG == {"999999999", "999999999.0", "999999999.00"}

\* clean_amount_like from its fourth line on, s being the stripped cell
CleanStripped(s) ==
    IF s = "" THEN None
    ELSE IF Lower(s) \in SENTINEL_NULLS THEN None
    ELSE IF Strip(ReplaceCh(ReplaceCh(s, "$", ""), ",", "")) \in SENTINEL_BIG THEN None
    ELSE Some(s)

clean_amount_like(v) == CleanStripped(Strip(v))

(***************************************************************************)
(* Inputs of the table-level specification: a header layout as a reader    *)
(* would hand it over (raw names), and data rows that are the layout's     *)
(* clean row with at most one cell replaced by an irregular value.         *)
(***************************************************************************)
MaxRows == 2

SyntheticColumns ==
    <<"code|1", "code|1|type", "payer_name", "plan_name",
      "standard_charge|gross", "standard_charge|discounted_cash">>

Layouts ==
    { \* the clean synthetic wide table
      SyntheticColumns,
      \* raw spellings; an explicit payer column beside a payer in a header
      <<"Code | 1", "Code | 1 | Type", "Payer_Name", "Humana - Negotiated Rate">>,
      \* bare code columns, payer only in a header, a percentage column
      <<"code", "code_type", "Cigna Negotiated",
        "standard_charge|negotiated_percentage">>,
      \* code slots 1 and 3
      <<"code|1", "code|1|type", "code|3", "code|3|type", "gross">>,
      \* slot 1 beside the bare code column
      <<"code|1", "code", "code_type", "cash">>,
      \* only slot 2 carries the code
      <<"code|2", "code|2|type", "gross">>,
      \* code slots 1 and 2, each with its type
      <<"code|1", "code|1|type", "code|2", "code|2|type", "gross">>,
      \* the negotiated-algorithm text column of the standard layout
      <<"code|1", "code|1|type", "standard_charge|negotiated_algorithm",
        "standard_charge|negotiated_dollar">>,
      \* two names that normalize to the same name
      <<"code|1", "code|1|type", "Cash", "CASH">>,
      \* no price column at all
      <<"code|1", "code|1|type", "description">>,
      \* aliases ahead of the canonical names
      <<"code", "code|1", "code_type", "start_date", "effective_date", "max">> }

PriceCells == {"", "$1,234.50", "999999999", "N/A", "nan"}

\* the regular cell of the column with normalized name n
CleanCellOf(n) ==
    CASE n = "code|1" -> "99213"
      [] n = "code|2" -> "J1100"
      [] n = "code|3" -> "0450"
      [] n = "code"   -> "A0428"
      [] n = "code|1|type" -> "CPT"
      [] n \in {"code|2|type", "code_type"} -> "HCPCS"
      [] n = "code|3|type" -> "RC"
      [] n = "payer_name" -> "Aetna"
      [] n = "plan_name"  -> "PPO"
      [] n = "description" -> "Office visit"
      [] n = "start_date" -> "2024-01-01"
      [] n = "effective_date" -> "2024-07-01"
      [] n = "standard_charge|negotiated_algorithm" -> "per diem"
      [] n = "standard_charge|gross" -> "100.00"
      [] OTHER -> "80.00"

\* the irregular cells of the column with normalized name n
AltCellsOf(n) ==
    IF n \in {"code|1", "code|2", "code", "payer_name", "plan_name", "code|1|type"}
    THEN {""}
    ELSE IF n = "code_type" THEN {" cpt-4 "}
    ELSE IF n \in {"code|3", "code|3|type", "code|2|type", "description",
                   "start_date", "effective_date",
                   "standard_charge|negotiated_algorithm",
                   "standard_charge|discounted_cash", "cigna negotiated"}
    THEN {}
    ELSE IF n = "standard_charge|negotiated_percentage" THEN {"12.5%"}
    ELSE IF n \in {"cash", "standard_charge|negotiated_dollar"} THEN {"", "N/A"}
    ELSE IF n = "max" THEN {""}
    ELSE PriceCells

CleanRow(columns) ==
    [i \in 1..Len(columns) |-> CleanCellOf(normalize_header(columns[i]))]

RowPool(columns) ==
    {CleanRow(columns)} \cup
    UNION { { [CleanRow(columns) EXCEPT ![i] = a] :
                a \in AltCellsOf(normalize_header(columns[i])) } :
            i \in 1..Len(columns) }

(***************************************************************************)
(* Inputs of the header-level specification: a raw column name made of up  *)
(* to MaxWords words joined by separators.                                 *)
(***************************************************************************)
MaxWords == 2

HeaderWords ==
    {"standard_charge", "gross", "min", "facility_fee", "negotiated_dollar",
     "negotiated", "payer", "specific", "allowed", "contracted", "Aetna"}

HeaderSeps == {"|", "_", " ", "-", " - "}

NoAnswer == [price |-> [ptype |-> None, payer |-> None, plan |-> None],
             charge |-> FALSE, load_ptype |-> None]

(***************************************************************************)
(* Table-level specification: a table is read row by row, then one of the  *)
(* two melts runs on it.                                                   *)
(***************************************************************************)
HeaderIdle == hdr = "" /\ hwords = 0 /\ hphase = "idle" /\ hres = NoAnswer

Init ==
    /\ df \in { [columns |-> L, rows |-> <<>>] : L \in Layouts }
    /\ phase = "input"
    /\ out = NoResult
    /\ HeaderIdle

AddRow ==
    /\ phase = "input"
    /\ Len(df.rows) < MaxRows
    /\ \E row \in RowPool(df.columns) :
          df' = [df EXCEPT !.rows = Append(@, row)]
    /\ UNCHANGED <<phase, out, hdr, hwords, hphase, hres>>

ToTall ==
    /\ phase = "input"
    /\ out' = to_tall(df, "Main St Hospital")
    /\ phase' = "to_tall"
    /\ UNCHANGED <<df, hdr, hwords, hphase, hres>>

MeltAndNormalize ==
    /\ phase = "input"
    /\ out' = melt_and_normalize(df, "Main St Hospital")
    /\ phase' = "melt_and_normalize"
    /\ UNCHANGED <<df, hdr, hwords, hphase, hres>>

Next == AddRow \/ ToTall \/ MeltAndNormalize

Spec == Init /\ [][Next]_vars

(***************************************************************************)
(* Header-level specification: a column name is read word by word, then    *)
(* the resolvers of both files run on it: parse_price_header on the raw    *)
(* name, is_charge_col and col_to_price_type_from_name on the normalized   *)
(* name (melt_and_normalize normalizes the columns first and asks for the  *)
(* price type of charge columns only).                                     *)
(***************************************************************************)
TableIdle == df = [columns |-> <<>>, rows |-> <<>>] /\ phase = "idle" /\ out = NoResult

HeaderInit ==
    /\ TableIdle
    /\ hdr \in HeaderWords
    /\ hwords = 1
    /\ hphase = "build"
    /\ hres = NoAnswer

AppendWord ==
    /\ hphase = "build"
    /\ hwords < MaxWords
    /\ \E sep \in HeaderSeps, w \in HeaderWords : hdr' = hdr \o sep \o w
    /\ hwords' = hwords + 1
    /\ UNCHANGED <<df, phase, out, hphase, hres>>

\* the answers for the raw name h, whose normalized name is n
Resolved(h, n) ==
    [price  |-> parse_price_header(h),
     charge |-> is_charge_col(n),
     load_ptype |-> IF is_charge_col(n)
                    THEN Some(col_to_price_type_from_name(n)) ELSE None]

ResolveHeader ==
    /\ hphase = "build"
    /\ hres' = Resolved(hdr, normalize_header(hdr))
    /\ hphase' = "parsed"
    /\ UNCHANGED <<df, phase, out, hdr, hwords>>

HeaderNext == AppendWord \/ ResolveHeader

SpecHeader == HeaderInit /\ [][HeaderNext]_vars

(***************************************************************************)
(* Properties.  Record k of the melted frame (out.tall, out.raw, out.keep) *)
(* belongs to price column PriceIndex(k) and to data row DataRow(k) of the *)
(* frame handed to the melt.                                               *)
(***************************************************************************)
Melted == phase \in {"to_tall", "melt_and_normalize"}

PriceIndex(k) == ((k - 1) \div out.nrows) + 1

DataRow(k) == out.data[((k - 1) % out.nrows) + 1]

\* the cell of record k's data row under column name, "" without the column
ExplicitCell(k, name) ==
    IF name \in Range(out.columns)
    THEN DataRow(k)[ColIndex(out.columns, name)] ELSE ""

\* C1: every row returned by to_tall or by melt_and_normalize has a non-empty
\* code, a non-empty code_type and a non-empty price_amount after trimming.
C1_EmittedRowsUsable ==
    Melted =>
        \A i \in 1..Len(out.rows) :
            /\ Strip(out.rows[i].code) # ""
            /\ Strip(out.rows[i].code_type) # ""
            /\ Strip(out.rows[i].price_amount) # ""

\* to_tall returned a row and held back a record whose only gap is the price
C1_Witness ==
    /\ phase = "to_tall"
    /\ out.rows # <<>>
    /\ \E k \in 1..Len(out.tall) :
          /\ ~out.keep[k]
          /\ out.tall[k].code # "" /\ out.tall[k].code_type # ""
          /\ out.tall[k].price_amount = ""

\* C2: for every table passed to to_tall, rows returned + dropped count
\* reported = data rows of the input table x detected price columns.
C2_DropConservation ==
    phase = "to_tall" =>
        Len(out.rows) + out.dropped = Len(df.rows) * Len(out.price_cols)

SyntheticTable ==
    [columns |-> SyntheticColumns,
     rows |-> << <<"99213", "CPT", "Aetna", "PPO", "100.00", "80.00">> >>]

Facts(rec) ==
    [code |-> rec.code, code_type |-> rec.code_type,
     payer_name |-> rec.payer_name, plan_name |-> rec.plan_name,
     price_type |-> rec.price_type, price_amount |-> rec.price_amount]

SyntheticFact(price_type, price_amount) ==
    [code |-> "99213", code_type |-> "CPT", payer_name |-> "Aetna",
     plan_name |-> "PPO", price_type |-> price_type, price_amount |-> price_amount]

\* C3: on the clean synthetic wide table with the single data row
\* (99213, CPT, Aetna, PPO, 100.00, 80.00), to_tall returns exactly two rows,
\* chargemaster 100.0 and cash 80.0, both with code 99213, code_type CPT,
\* payer Aetna, plan PPO, and drops nothing.
C3_SyntheticRoundTrip ==
    (phase = "to_tall" /\ df = SyntheticTable) =>
        /\ ~out.raised
        /\ Len(out.rows) = 2
        /\ { Facts(out.rows[i]) : i \in 1..Len(out.rows) } =
              { SyntheticFact("chargemaster", "100.0"), SyntheticFact("cash", "80.0") }
        /\ out.dropped = 0

\* to_tall ran on the synthetic table and returned rows
C3_Witness == phase = "to_tall" /\ df = SyntheticTable /\ out.rows # <<>>

\* the sentinel cells: the absurd amount and the not-disclosed tokens
IsSentinelCell(cell) ==
    Strip(cell) \in SENTINEL_BIG \/ Lower(Strip(cell)) \in SENTINEL_NULLS

\* C4: in both melts, a record whose price cell is the sentinel 999999999 or a
\* not-disclosed token (na, n/a, none, null, nan, not disclosed, ...) has an
\* empty price_amount and is dropped, not emitted.
C4_SentinelsDropped ==
    Melted =>
        \A k \in 1..Len(out.tall) :
            IsSentinelCell(out.raw[k]) =>
                out.tall[k].price_amount = "" /\ ~out.keep[k]

\* C5: in to_tall a price cell written with a currency symbol and thousands
\* separators, $1,234.50, yields price_amount 1234.5, and its record is kept
\* when code and code_type are present.
C5_CurrencyStripped ==
    phase = "to_tall" =>
        \A k \in 1..Len(out.tall) :
            out.raw[k] = "$1,234.50" =>
                /\ out.tall[k].price_amount = "1234.5"
                /\ (out.tall[k].code # "" /\ out.tall[k].code_type # "") => out.keep[k]

\* the code slots of the table in ascending order, then the unnumbered column
CodeSlots == present(out.columns, <<"code|1", "code|2", "code|3", "code|4", "code">>)

TypeSlots ==
    present(out.columns, <<"code|1|type", "code|2|type", "code|3|type",
                           "code|4|type", "code_type">>)

\* the first non-blank cell of record k's data row over slots
FirstNonBlank(k, slots) ==
    coalesce_first(RowDict(out.columns, DataRow(k), slots), slots)

\* C6: the code (and likewise the code_type) of every melted record is the
\* first non-blank value over the table's code slots code|1, code|2, code|3,
\* code|4 and then the unnumbered code column.
C6_CodeCoalescing ==
    (Melted /\ ~out.raised) =>
        \A k \in 1..Len(out.tall) :
            /\ out.tall[k].code = FirstNonBlank(k, CodeSlots)
            /\ out.tall[k].code_type = norm_type(FirstNonBlank(k, TypeSlots))

\* C7: in to_tall, payer_name (resp. plan_name) of every melted record is the
\* row's value in the explicit payer_name (resp. plan_name) column whenever
\* that column exists and the value is not blank; a record carries another
\* value only when the column is absent or blank for the row, and then it is
\* the payer (resp. plan) embedded in the price column's header.
C7_ExplicitPayerWins ==
    phase = "to_tall" =>
        \A k \in 1..Len(out.tall) :
            /\ Strip(ExplicitCell(k, "payer_name")) # "" =>
                  out.tall[k].payer_name = ExplicitCell(k, "payer_name")
            /\ Strip(ExplicitCell(k, "plan_name")) # "" =>
                  out.tall[k].plan_name = ExplicitCell(k, "plan_name")
            /\ out.tall[k].payer_name # ExplicitCell(k, "payer_name") =>
                  /\ Strip(ExplicitCell(k, "payer_name")) = ""
                  /\ out.price_specs[PriceIndex(k)].payer = Some(out.tall[k].payer_name)
            /\ out.tall[k].plan_name # ExplicitCell(k, "plan_name") =>
                  /\ Strip(ExplicitCell(k, "plan_name")) = ""
                  /\ out.price_specs[PriceIndex(k)].plan = Some(out.tall[k].plan_name)

\* one table with both cases under a header that embeds a payer: a row whose
\* explicit payer wins over the header's, a row with a blank explicit payer
\* that takes the header's
C7_Witness ==
    /\ phase = "to_tall"
    /\ \E k \in 1..Len(out.tall) :
          /\ out.price_specs[PriceIndex(k)].payer = Some("Humana")
          /\ ExplicitCell(k, "payer_name") = "Aetna"
          /\ out.tall[k].payer_name = "Aetna"
    /\ \E k \in 1..Len(out.tall) :
          /\ "payer_name" \in Range(out.columns)
          /\ ExplicitCell(k, "payer_name") = ""
          /\ out.tall[k].payer_name = "Humana"

\* C8: in to_tall and in melt_and_normalize, the columns carried as
\* identifier columns and the columns melted as price columns are disjoint.
C8_RolesDisjoint ==
    Melted => Range(out.id_cols) \cap Range(out.price_cols) = {}

\* the price kind the table of the specification gives a suffix
ClaimedPriceKind(suffix) ==
    CASE StartsWith(suffix, "gross") -> "chargemaster"
      [] suffix = "discounted_cash" -> "cash"
      [] suffix = "negotiated_dollar" -> "negotiated_dollar"
      [] suffix = "negotiated_percentage" -> "negotiated_percentage"
      [] suffix = "min" -> "min"
      [] suffix = "max" -> "max"
      [] OTHER -> "chargemaster"

\* the answers both resolvers owe a name standard_charge|<suffix>
ClaimedAnswers(suffix) ==
    /\ hres.price.ptype = Some(ClaimedPriceKind(suffix))
    /\ hres.charge
    /\ hres.load_ptype = Some(ClaimedPriceKind(suffix))

\* C9: every column whose normalized name is standard_charge|<suffix> is a
\* price column with exactly the price kind of the fixed table (gross* ->
\* chargemaster, discounted_cash -> cash, negotiated_dollar ->
\* negotiated_dollar, negotiated_percentage -> negotiated_percentage,
\* min -> min, max -> max), and chargemaster for any other suffix.
C9_PriceKindTable ==
    (hphase = "parsed" /\ StartsWith(normalize_header(hdr), "standard_charge|")) =>
        ClaimedAnswers(SplitRest(normalize_header(hdr), "|"))

\* an alphanumeric character: what a separator is not
IsAlnum(c) == IsCased(c) \/ IsDigit(c)

\* keyword p stands in n at index i between separators or the ends of n
TokenAt(n, p, i) ==
    /\ OccursAt(n, p, i)
    /\ (i = 1 \/ ~IsAlnum(Ch(n, i - 1)))
    /\ (i + Len(p) - 1 = Len(n) \/ ~IsAlnum(Ch(n, i + Len(p))))

ContainsKeyword(n) ==
    \E p \in {"negotiated", "payer specific", "payer_specific", "allowed", "contracted"} :
        \E i \in 1..Len(n) : TokenAt(n, p, i)

\* n matches no canonical and no alias pattern
NoKnownPattern(n) ==
    /\ ~StartsWith(n, "standard_charge") /\ ~StartsWith(n, "standard charge")
    /\ ReplaceCh(n, " ", "_") \notin DOMAIN PRICE_TYPE_MAP

\* C10: every normalized column name that matches no canonical or alias
\* pattern and contains one of the keywords negotiated, payer specific /
\* payer_specific, allowed, contracted, also when joined by underscores or
\* hyphens as in aetna_negotiated_rate, is a negotiated price column.
C10_KeywordHeuristic ==
    (/\ hphase = "parsed"
     /\ NoKnownPattern(normalize_header(hdr))
     /\ ContainsKeyword(normalize_header(hdr))) =>
        hres.price.ptype = Some("negotiated")

(***************************************************************************)
(* yield_tall_rows of hospital-loader_charge_long-loads-csvs.py (the same  *)
(* function, line for line in its wide mode, is in hp_long_loader.py).  A  *)
(* chunk is [columns, rows] as above, but is read without                  *)
(* keep_default_na=False: a cell is None (NaN) or Some(text).  The chunks  *)
(* of this model have pairwise distinct names after str.strip().           *)
(***************************************************************************)
NEGOTIATED_METRICS == {"negotiated_dollar", "negotiated_percentage", "negotiated_algorithm"}

IGNORE_STANDARD_CHARGE_SUFFIXES == {"min", "max"}

ROWWISE_SYNS ==
    [payer_name |-> <<"payer_name", "payer", "insurance", "insurance_name", "payername">>,
     plan_name  |-> <<"plan_name", "plan", "plan_type", "insurance_type", "network",
                      "coverage_type">>,
     standard_charge |-> <<"standard_charge", "standard charge", "standardcharge",
                           "charge", "price">>,
     negotiated_dollar |-> <<"negotiated_dollar", "negotiated dollar",
                             "negotiated_dollar_amount", "negotiated rate",
                             "negotiated amount">>,
     negotiated_percentage |-> <<"negotiated_percentage", "negotiated percent",
                                 "negotiated_rate_pct", "negotiated rate %">>,
     negotiated_algorithm |-> <<"negotiated_algorithm", "algorithm", "negotiated algo",
                                "calc algorithm">>,
     estimated_amount |-> <<"estimated_amount", "estimate", "est_amount",
                            "estimated amount">>,
     methodology |-> <<"methodology", "calc_method", "calculation_method">>,
     additional_notes |-> <<"additional_payer_notes", "payer_notes", "additional notes",
                            "notes">>,
     gross |-> <<"standard_charge|gross", "gross charge", "gross">>,
     discounted_cash |-> <<"standard_charge|discounted_cash", "cash price",
                           "discounted cash", "cash_discount">>]

\* the fields of base that are row.get(name, None)
BaseRowFields ==
    {"description", "drug_unit_of_measurement", "drug_type_of_measurement",
     "code", "code|1", "code|1|type", "code|2", "code|2|type", "code|3",
     "code|3|type", "code|4", "code|4|type", "code|5", "code|5|type",
     "code|6", "code|6|type", "modifiers", "setting", "billing_class",
     "activity_type"}

\* clean_name of a name part
clean_name(s) == Strip(CollapseSpace(s, 1))

\* s.split(sep) for a one-character sep, cut at its first separator
RECURSIVE SplitAll(_, _)
SplitAt(s, sep, at) ==
    IF at = 0 THEN <<s>>
    ELSE <<SubSeq(s, 1, at - 1)>> \o SplitAll(SubSeq(s, at + 1, Len(s)), sep)

SplitAll(s, sep) == SplitAt(s, sep, Find(s, sep))

\* row.get(name): the cell under the column called name, None without it
RowGet(cols, r, name) ==
    IF name \in Range(cols) THEN r[ColIndex(cols, name)] ELSE None

\* a cell that is NaN or blank
IsBlankCell(cell) == cell = None \/ Strip(cell[1]) = ""

\* clean_amount_like of a cell
CleanCellAmount(cell) == IF cell = None THEN None ELSE clean_amount_like(cell[1])

\* {c.lower(): c for c in chunk.columns} as the list of its values in key
\* order: a key keeps the place of its first column and the name of its last
LastWithLower(cols, lc) ==
    cols[CHOOSE i \in 1..Len(cols) :
            /\ Lower(cols[i]) = lc
            /\ \A j \in (i + 1)..Len(cols) : Lower(cols[j]) # lc]

LowerCols(cols) ==
    [i \in 1..Len(Dedupe([j \in 1..Len(cols) |-> Lower(cols[j])])) |->
        LastWithLower(cols, Dedupe([j \in 1..Len(cols) |-> Lower(cols[j])])[i])]

\* cols_lower.get(cand.lower())
ColsLowerGet(cols, cand) ==
    IF \E i \in 1..Len(cols) : Lower(cols[i]) = Lower(cand)
    THEN Some(LastWithLower(cols, Lower(cand))) ELSE None

\* get_ci: the first candidate with a column and a non-blank cell
RECURSIVE get_ci(_, _, _)
GetCiAt(cols, r, cands, c) ==
    IF c # None /\ ~IsBlankCell(RowGet(cols, r, c[1]))
    THEN RowGet(cols, r, c[1])
    ELSE get_ci(cols, r, Tail(cands))

get_ci(cols, r, cands) ==
    IF cands = <<>> THEN None
    ELSE GetCiAt(cols, r, cands, ColsLowerGet(cols, Head(cands)))

get_ci_amount(cols, r, cands) == CleanCellAmount(get_ci(cols, r, cands))

any_col_present(cols, syn_list) ==
    \E i \in 1..Len(syn_list) : ColsLowerGet(cols, syn_list[i]) # None

looks_rowwise(cols) ==
    any_col_present(cols, ROWWISE_SYNS.payer_name)
        /\ any_col_present(cols, ROWWISE_SYNS.plan_name)

\* lines 215-222
IsPayerCol(c) ==
    /\ \E p \in {"standard_charge|", "estimated_amount|", "additional_payer_notes|",
                 "methodology|"} : StartsWith(Lower(c), p)
    /\ Lower(c) \notin {"standard_charge|gross", "standard_charge|discounted_cash"}

PayerCols(cols) == SelectSeq(LowerCols(cols), IsPayerCol)

\* the keys a metrics dict of per can hold, each None until it is stored
MetricNames ==
    {"standard_charge", "negotiated_dollar", "negotiated_percentage",
     "negotiated_algorithm", "estimated_amount", "methodology", "additional_notes"}

EmptyMetrics == [m \in MetricNames |-> None]

\* per is the list of its groups in insertion order
HasGroup(per, payer, plan) ==
    \E i \in 1..Len(per) : per[i].payer = payer /\ per[i].plan = plan

\* if (payer, plan) not in per: per[(payer, plan)] = {}
EnsureGroup(per, payer, plan) ==
    IF HasGroup(per, payer, plan) THEN per
    ELSE Append(per, [payer |-> payer, plan |-> plan, metrics |-> EmptyMetrics])

\* per[(payer, plan)][metric] = val, val being present
PutMetric(per, payer, plan, metric, val) ==
    [i \in 1..Len(per) |->
        IF per[i].payer = payer /\ per[i].plan = plan
        THEN [per[i] EXCEPT !.metrics[metric] = val]
        ELSE per[i]]

\* lines 298-304, val being the cleaned amount
StoreCharge(per, payer, plan, metric, val) ==
    IF val = None THEN per
    ELSE IF metric \in NEGOTIATED_METRICS \cup {"standard_charge"}
    THEN PutMetric(per, payer, plan, metric, val)
    ELSE per

\* lines 312-314, 322-324 and 332-334: a present value is stored
StoreValue(per, payer, plan, metric, val) ==
    IF val = None THEN per ELSE PutMetric(per, payer, plan, metric, val)

\* a text cell as it is, None when NaN or blank
TextCell(cell) == IF IsBlankCell(cell) THEN None ELSE cell

\* lines 292-304
ChargeStep(per, parts, cell) ==
    IF Len(parts) < 4 \/ Lower(Strip(parts[4])) \in IGNORE_STANDARD_CHARGE_SUFFIXES
    THEN per
    ELSE StoreCharge(EnsureGroup(per, clean_name(parts[2]), Some(clean_name(parts[3]))),
                     clean_name(parts[2]), Some(clean_name(parts[3])),
                     Lower(Strip(parts[4])), CleanCellAmount(cell))

\* the plan of an estimated_amount, methodology or additional_payer_notes column
PlanPart(parts) == IF Len(parts) >= 3 THEN Some(clean_name(parts[3])) ELSE None

\* lines 307-314, 317-324 and 327-334
PayerStep(per, parts, metric, val) ==
    IF Len(parts) < 2 THEN per
    ELSE StoreValue(EnsureGroup(per, clean_name(parts[2]), PlanPart(parts)),
                    clean_name(parts[2]), PlanPart(parts), metric, val)

\* the body of the loop over payer_cols, parts being col.split("|")
PerStep(per, parts, cell) ==
    CASE Lower(parts[1]) = "standard_charge" -> ChargeStep(per, parts, cell)
      [] Lower(parts[1]) = "estimated_amount" ->
            PayerStep(per, parts, "estimated_amount", CleanCellAmount(cell))
      [] Lower(parts[1]) = "methodology" ->
            PayerStep(per, parts, "methodology", TextCell(cell))
      [] Lower(parts[1]) = "additional_payer_notes" ->
            PayerStep(per, parts, "additional_notes", TextCell(cell))
      [] OTHER -> per

\* lines 286-334: per after the columns payer_cols, starting from per
RECURSIVE PerOf(_, _, _, _)
PerOf(per, payer_cols, cols, r) ==
    IF payer_cols = <<>> THEN per
    ELSE PerOf(PerStep(per, SplitAll(Head(payer_cols), "|"),
                       RowGet(cols, r, Head(payer_cols))),
               Tail(payer_cols), cols, r)

\* gross and discounted_cash of base (lines 193-194, 257, 259)
BaseAmount(cols, r, name, syns) ==
    IF name \in Range(cols) THEN CleanCellAmount(RowGet(cols, r, name))
    ELSE get_ci_amount(cols, r, syns)

\* lines 225-266
BaseRecord(meta, cols, r) ==
    [meta |-> meta,
     row  |-> [f \in BaseRowFields |-> RowGet(cols, r, f)],
     payer_name |-> None, plan_name |-> None,
     estimated_amount |-> None,
     gross |-> BaseAmount(cols, r, "standard_charge|gross", ROWWISE_SYNS.gross),
     standard_charge |-> None,
     discounted_cash |-> BaseAmount(cols, r, "standard_charge|discounted_cash",
                                    ROWWISE_SYNS.discounted_cash),
     negotiated_dollar |-> None, negotiated_percentage |-> None,
     negotiated_algorithm |-> None, methodology |-> None,
     additional_notes |-> RowGet(cols, r, "additional_generic_notes")]

\* a or b of two optional values
OrElse(a, b) == IF a = None THEN b ELSE a

\* lines 268-283: the row of row-wise mode
RowwiseRecord(base, cols, r) ==
    [base EXCEPT
       !.payer_name = get_ci(cols, r, ROWWISE_SYNS.payer_name),
       !.plan_name  = get_ci(cols, r, ROWWISE_SYNS.plan_name),
       !.standard_charge = get_ci_amount(cols, r, ROWWISE_SYNS.standard_charge),
       !.negotiated_dollar = get_ci_amount(cols, r, ROWWISE_SYNS.negotiated_dollar),
       !.negotiated_percentage = get_ci_amount(cols, r, ROWWISE_SYNS.negotiated_percentage),
       !.negotiated_algorithm = get_ci(cols, r, ROWWISE_SYNS.negotiated_algorithm),
       !.estimated_amount = get_ci_amount(cols, r, ROWWISE_SYNS.estimated_amount),
       !.methodology = get_ci(cols, r, ROWWISE_SYNS.methodology),
       !.additional_notes = OrElse(get_ci(cols, r, ROWWISE_SYNS.additional_notes),
                                   base.additional_notes)]

\* lines 342-354: the row of one (payer, plan) group
GroupRecord(base, g) ==
    [base EXCEPT
       !.payer_name = Some(g.payer),
       !.plan_name  = g.plan,
       !.standard_charge = CleanCellAmount(g.metrics.standard_charge),
       !.negotiated_dollar = CleanCellAmount(g.metrics.negotiated_dollar),
       !.negotiated_percentage = CleanCellAmount(g.metrics.negotiated_percentage),
       !.negotiated_algorithm = g.metrics.negotiated_algorithm,
       !.estimated_amount = CleanCellAmount(OrElse(g.metrics.estimated_amount,
                                                   base.estimated_amount)),
       !.methodology = OrElse(g.metrics.methodology, base.methodology),
       !.additional_notes = OrElse(g.metrics.additional_notes, base.additional_notes)]

\* lines 336-354: the rows of wide mode
WideRecords(base, per) ==
    IF per = <<>> THEN <<base>>
    ELSE [i \in 1..Len(per) |-> GroupRecord(base, per[i])]

\* the rows one data row yields (the body of the loop of line 224)
RowRecords(meta, cols, payer_cols, r) ==
    IF looks_rowwise(cols) /\ payer_cols = <<>>
    THEN <<RowwiseRecord(BaseRecord(meta, cols, r), cols, r)>>
    ELSE WideRecords(BaseRecord(meta, cols, r), PerOf(<<>>, payer_cols, cols, r))

\* yield_tall_rows from line 177 on, cols being the stripped names: the rows
\* it yields, data row by data row
YieldStripped(meta, cols, rows) ==
    [i \in 1..Len(rows) |-> RowRecords(meta, cols, PayerCols(cols), rows[i])]

yield_tall_rows(meta, chunk) ==
    YieldStripped(meta, [i \in 1..Len(chunk.columns) |-> Strip(chunk.columns[i])],
                  chunk.rows)

(***************************************************************************)
(* Fan-out specification: a chunk of a wide payer file is read row by row  *)
(* (df), then yield_tall_rows runs on it (out: the rows it yields, data    *)
(* row by data row).                                                       *)
(***************************************************************************)
ChunkLayouts ==
    { \* two payers, two metrics for the first
      <<"description", "code|1", "standard_charge|gross",
        "standard_charge|Aetna|PPO|negotiated_dollar",
        "standard_charge|Aetna|PPO|negotiated_percentage",
        "standard_charge|Cigna|HMO|negotiated_dollar">>,
      \* two names that differ in letter case only
      <<"description", "standard_charge|Aetna|PPO|negotiated_dollar",
        "Standard_Charge|Aetna|PPO|Negotiated_Dollar">>,
      \* two names that differ in the spaces around the payer only
      <<"description", "standard_charge|Aetna|PPO|negotiated_dollar",
        "standard_charge| Aetna |PPO|negotiated_dollar">>,
      \* payer and plan in columns of their own
      <<"description", "payer_name", "plan_name", "standard_charge",
        "negotiated_dollar">>,
      \* payer and plan in columns named by other synonyms
      <<"description", "Payer", "plan_type", "standard_charge">>,
      \* payer and plan in columns of their own next to pipe-named charges
      <<"description", "payer_name", "plan_name",
        "standard_charge|negotiated_dollar", "standard_charge|min",
        "standard_charge|max">>,
      \* the other payer-specific prefixes, a plan-less name, an ignored metric
      <<"code|1", "estimated_amount|Aetna|PPO", "methodology|Aetna",
        "additional_payer_notes|Aetna|PPO", "standard_charge|Aetna|PPO|min">> }

FanMeta == [file_name |-> "main_st.csv", hospital_name |-> "Main St Hospital"]

\* the regular cell of column i of a chunk, told apart by i where it is an amount
ChunkCell(name, i) ==
    CASE name = "description" -> Some("Office visit")
      [] name = "code|1" -> Some("99213")
      [] Lower(name) \in Range(ROWWISE_SYNS.payer_name) -> Some("Aetna")
      [] Lower(name) \in Range(ROWWISE_SYNS.plan_name) -> Some("PPO")
      [] StartsWith(name, "methodology") -> Some("case rate")
      [] StartsWith(name, "additional_payer_notes") -> Some("per contract")
      [] OTHER -> Some(IntToStr(100 * i) \o ".00")

\* the irregular cells of a column of a chunk
ChunkAltCells(name) ==
    IF name \in {"description", "code|1", "standard_charge|gross"} THEN {}
    ELSE IF StartsWith(Lower(name), "standard_charge|") THEN {None, Some("999999999")}
    ELSE {None}

ChunkRow(columns) == [i \in 1..Len(columns) |-> ChunkCell(columns[i], i)]

ChunkRowPool(columns) ==
    {ChunkRow(columns)} \cup
    UNION { { [ChunkRow(columns) EXCEPT ![i] = a] : a \in ChunkAltCells(columns[i]) } :
            i \in 1..Len(columns) }

FanInit ==
    /\ df \in { [columns |-> L, rows |-> <<>>] : L \in ChunkLayouts }
    /\ phase = "chunk"
    /\ out = <<>>
    /\ HeaderIdle

FanAddRow ==
    /\ phase = "chunk"
    /\ Len(df.rows) < MaxRows
    /\ \E row \in ChunkRowPool(df.columns) :
          df' = [df EXCEPT !.rows = Append(@, row)]
    /\ UNCHANGED <<phase, out, hdr, hwords, hphase, hres>>

YieldTallRows ==
    /\ phase = "chunk"
    /\ out' = yield_tall_rows(FanMeta, df)
    /\ phase' = "yield_tall_rows"
    /\ UNCHANGED <<df, hdr, hwords, hphase, hres>>

FanNext == FanAddRow \/ YieldTallRows

SpecFanOut == FanInit /\ [][FanNext]_vars

\* the output field a payer-specific column name feeds, "" for none
FanField(parts) ==
    CASE Lower(parts[1]) = "standard_charge" ->
            IF Len(parts) >= 4
                 /\ Lower(Strip(parts[4])) \in NEGOTIATED_METRICS \cup {"standard_charge"}
            THEN Lower(Strip(parts[4])) ELSE ""
      [] Lower(parts[1]) = "estimated_amount" -> "estimated_amount"
      [] Lower(parts[1]) = "methodology" -> "methodology"
      [] Lower(parts[1]) = "additional_payer_notes" -> "additional_notes"
      [] OTHER -> ""

\* the value a cell of that column owes its output row, None for a null cell
FanValue(parts, cell) ==
    IF FanField(parts) \in {"methodology", "additional_notes"}
    THEN TextCell(cell) ELSE CleanCellAmount(cell)

\* yielded row o is the row of the (payer, plan) group the name parts names
InGroupOf(o, parts) ==
    /\ o.payer_name = Some(clean_name(parts[2]))
    /\ o.plan_name = PlanPart(parts)

\* the cell of data row i under column j is in the output row of its group
CellCarried(i, j, parts) ==
    (FanField(parts) # "" /\ FanValue(parts, df.rows[i][j]) # None) =>
        \E n \in 1..Len(out[i]) :
            /\ InGroupOf(out[i][n], parts)
            /\ out[i][n][FanField(parts)] = FanValue(parts, df.rows[i][j])

\* C11: in the wide fan-out of yield_tall_rows, every non-null cell of every
\* payer-specific column of a data row is in the output row of the column's
\* (payer, plan) group; two columns that resolve to the same (metric, payer,
\* plan) never replace one another's value.
C11_NoSilentOverwrite ==
    phase = "yield_tall_rows" =>
        \A i \in 1..Len(df.rows) : \A j \in 1..Len(df.columns) :
            IsPayerCol(Strip(df.columns[j])) =>
                CellCarried(i, j, SplitAll(Strip(df.columns[j]), "|"))

\* the canonical name of a field before its alias
CanonicalBeforeAlias ==
    { <<"code|1", "code">>, <<"code|1|type", "code_type">>,
      <<"effective_date", "start_date">>, <<"expires_on", "end_date">> }

\* C12: when a table holds both the canonical column of a field and an alias
\* of it, first_existing / pick_first selects the canonical one whatever the
\* column order; the bare code / code_type column is used as slot 1 only if
\* there is no code|1 / code|1|type column.
C12_CanonicalOverAlias ==
    Melted =>
        \A pair \in CanonicalBeforeAlias :
            pair[1] \in Range(out.columns) => pair[2] \notin Range(out.id_cols)

(***************************************************************************)
(* Normalisation specification: a raw header is read character by          *)
(* character, to_tall normalizes it, and parse_price_header normalizes the *)
(* normalized name once more.                                              *)
(***************************************************************************)
MaxChars == 4

HeaderChars == {" ", "\t", "|", "-", "a", "B"}

NormInit ==
    /\ TableIdle
    /\ hdr = ""
    /\ hwords = 0
    /\ hphase = "chars"
    /\ hres = NoAnswer

AppendChar ==
    /\ hphase = "chars"
    /\ hwords < MaxChars
    /\ \E c \in HeaderChars : hdr' = hdr \o c
    /\ hwords' = hwords + 1
    /\ UNCHANGED <<df, phase, out, hphase, hres>>

NormalizeHeader ==
    /\ hphase = "chars"
    /\ hres' = [once |-> normalize_header(hdr), twice |-> None]
    /\ hphase' = "once"
    /\ UNCHANGED <<df, phase, out, hdr, hwords>>

NormalizeAgain ==
    /\ hphase = "once"
    /\ hres' = [hres EXCEPT !.twice = Some(normalize_header(hres.once))]
    /\ hphase' = "twice"
    /\ UNCHANGED <<df, phase, out, hdr, hwords>>

NormNext == AppendChar \/ NormalizeHeader \/ NormalizeAgain

SpecNormalize == NormInit /\ [][NormNext]_vars

\* C13: normalize_header is idempotent: for every header string x,
\* normalize_header(normalize_header(x)) = normalize_header(x).
C13_NormalizeIdempotent ==
    hphase = "twice" => hres.twice = Some(hres.once)

\* a header whose case, dash and whitespace around a pipe all change
C13_Witness ==
    hphase = "twice" /\ hdr = "B\t|-" /\ hres.once = "b|_"

(***************************************************************************)
(* Unique-name specification: a sequence of normalized names is read name  *)
(* by name, make_unique runs on it, and then on its own output.            *)
(***************************************************************************)
MaxNames == 3

NamePool == {"a", "a__1", "b", "gross__charges"}

NoNames == [columns |-> <<>>, rows |-> <<>>]

UniqueInit ==
    /\ df = NoNames
    /\ phase = "names"
    /\ out = NoResult
    /\ HeaderIdle

AppendName ==
    /\ phase = "names"
    /\ Len(df.columns) < MaxNames
    /\ \E n \in NamePool : df' = [df EXCEPT !.columns = Append(@, n)]
    /\ UNCHANGED <<phase, out, hdr, hwords, hphase, hres>>

MakeUnique ==
    /\ phase = "names"
    /\ out' = [names |-> make_unique(df.columns), again |-> None]
    /\ phase' = "make_unique"
    /\ UNCHANGED <<df, hdr, hwords, hphase, hres>>

MakeUniqueAgain ==
    /\ phase = "make_unique"
    /\ out' = [out EXCEPT !.again = Some(make_unique(out.names))]
    /\ phase' = "make_unique_again"
    /\ UNCHANGED <<df, hdr, hwords, hphase, hres>>

UniqueNext == AppendName \/ MakeUnique \/ MakeUniqueAgain

SpecUnique == UniqueInit /\ [][UniqueNext]_vars

Uniquified == phase \in {"make_unique", "make_unique_again"}

\* C14: for every sequence of normalized header names, also one in which a
\* name already ends in a disambiguating suffix (a, a, a__1), the names of
\* make_unique(names) are pairwise distinct.
C14_UniqueNames ==
    Uniquified =>
        \A i, j \in 1..Len(out.names) : out.names[i] = out.names[j] => i = j

\* C15: make_unique is idempotent on its own output: for every sequence of
\* names, make_unique(make_unique(names)) = make_unique(names).
C15_MakeUniqueIdempotent ==
    phase = "make_unique_again" => out.again = Some(out.names)

\* C16: make_unique preserves length and order, and at every position i
\* base_name(make_unique(names)[i]) = names[i], also for a name that holds
\* the separator itself (gross__charges).
C16_BaseNameRecovers ==
    Uniquified =>
        /\ Len(out.names) = Len(df.columns)
        /\ \A i \in 1..Len(out.names) : base_name(out.names[i]) = df.columns[i]

(***************************************************************************)
(* Shape classifier (count-tall-wide-csv.py).  classify reads of a frame   *)
(* its shape, its column names, which columns have a numeric dtype and,    *)
(* for a column that is not numeric, the number of distinct non-null       *)
(* values and the number of nulls (nunique(dropna=True) and                *)
(* groupby(dropna=False)); a frame of the model is that description.  The  *)
(* readers give every column a distinct str name.  A reason is modelled as *)
(* the sequence of its parts; the counts that the structural and the tall  *)
(* reasons print are left out.                                             *)
(***************************************************************************)
MIN_WIDE_SUFFIX_GROUP == 3

MonthAbbrevs ==
    {"jan", "feb", "mar", "apr", "may", "jun",
     "jul", "aug", "sep", "oct", "nov", "dec"}

QuarterTokens == {"q1", "q2", "q3", "q4"}

DayDigits == {"1", "2", "3", "4", "5", "6", "7", "8", "9"}

\* the group suf of the pattern, matched to the end of the name with
\* re.IGNORECASE; the day numbers of two digits are among \d{2,4}
IsPeriodSuffix(r) ==
    \/ Len(r) \in 2..4 /\ IsDigits(r)
    \/ Lower(r) \in QuarterTokens \cup MonthAbbrevs
    \/ r \in DayDigits

\* [_\-]?(?P<suf>...)$
RestMatches(r) ==
    \/ IsPeriodSuffix(r)
    \/ r # "" /\ Head(r) \in {"_", "-"} /\ IsPeriodSuffix(Tail(r))

\* (?P<base>.+?): the shortest base, of k characters or more, that lets the
\* rest match; the base is stripped
RECURSIVE PatternBaseFrom(_, _)
PatternBaseFrom(c, k) ==
    IF k >= Len(c) THEN None
    ELSE IF RestMatches(SubSeq(c, k + 1, Len(c)))
         THEN Some(Strip(SubSeq(c, 1, k)))
         ELSE PatternBaseFrom(c, k + 1)

PatternBase(c) == PatternBaseFrom(c, 1)

\* the base of every name that matches, in column order
PatternBases(cols) ==
    Flatten([i \in 1..Len(cols) |-> PatternBase(cols[i])])

\* the first base with the most members
RECURSIVE MaxGroupFrom(_, _, _, _)
MaxGroupStep(bases, i, name, size, members) ==
    IF members > size
    THEN MaxGroupFrom(bases, i + 1, Some(bases[i]), members)
    ELSE MaxGroupFrom(bases, i + 1, name, size)

MaxGroupFrom(bases, i, name, size) ==
    IF i > Len(bases) THEN [name |-> name, size |-> size]
    ELSE MaxGroupStep(bases, i, name, size, CountIn(bases, bases[i]))

PatternResult(group) ==
    [strong |-> group.size >= MIN_WIDE_SUFFIX_GROUP,
     name |-> group.name, size |-> group.size]

detect_wide_by_col_patterns(cols) ==
    PatternResult(MaxGroupFrom(PatternBases(cols), 1, None, 0))

NumericCols(t) == { i \in 1..Len(t.columns) : t.numeric[i] }

ManyNumeric(numeric_cols, ncols) ==
    5 * numeric_cols >= 3 * ncols /\ ncols >= 8

FewRows(nrows, ncols) ==
    ncols >= 20 /\ nrows > 0 /\ 2 * ncols >= nrows

StructureReasons(numeric_cols, nrows, ncols) ==
    (IF ManyNumeric(numeric_cols, ncols)
     THEN <<"many numeric columns">> ELSE <<>>)
    \o (IF FewRows(nrows, ncols)
        THEN <<"more columns relative to rows">> ELSE <<>>)

Detected(flag, reasons) == [flag |-> flag, reasons |-> reasons]

detect_wide_by_structure(t) ==
    IF Len(t.columns) = 0 THEN Detected(FALSE, <<>>)
    ELSE Detected(
           \/ ManyNumeric(Cardinality(NumericCols(t)), Len(t.columns))
           \/ FewRows(t.nrows, Len(t.columns)),
           StructureReasons(Cardinality(NumericCols(t)), t.nrows,
                            Len(t.columns)))

likely_value_names ==
    {"value", "amount", "val", "measurement", "score", "reading"}

likely_variable_names ==
    {"variable", "metric", "measure", "attribute", "feature", "name",
     "type", "category"}

has_named(cols, names) == \E i \in 1..Len(cols) : Lower(cols[i]) \in names

few_numeric(t) == Cardinality(NumericCols(t)) <= 2

\* nunique >= 0.5 * nrows on a column that is not numeric
IsIdCandidate(t, i) ==
    ~t.numeric[i] /\ t.nrows > 0 /\ 2 * t.nunique[i] >= t.nrows

\* the number of groups of a groupby that drops the nulls
NonNullGroups(t, i) == t.nunique[i]

\* len(df.groupby(cid, dropna=False).size()): the nulls are one more group
GroupCount(t, i) == t.nunique[i] + (IF t.nulls[i] > 0 THEN 1 ELSE 0)

\* grp.mean() >= 2.0, the mean of the group sizes being nrows / len(grp)
RepeatedId(t, i) ==
    IsIdCandidate(t, i) /\ GroupCount(t, i) > 0
        /\ t.nrows >= 2 * GroupCount(t, i)

long_repetition(t) == \E i \in 1..Len(t.columns) : RepeatedId(t, i)

many_rows(t) == t.nrows > Len(t.columns) * 5 /\ t.nrows >= 100

Vote(flag, reason) == IF flag THEN <<reason>> ELSE <<>>

TallReasons(t) ==
    Vote(has_named(t.columns, likely_value_names),
         "found 'value-like' column name")
    \o Vote(has_named(t.columns, likely_variable_names),
            "found 'variable/metric' column name")
    \o Vote(few_numeric(t), "one/few numeric measure columns")
    \o Vote(long_repetition(t), "repeated IDs")
    \o Vote(many_rows(t), "rows >> cols")

TallVotes(reasons) == Detected(Len(reasons) >= 2, reasons)

detect_tall_schema(t) ==
    IF Len(t.columns) = 0 THEN Detected(FALSE, <<>>)
    ELSE TallVotes(TallReasons(t))

Classified(cls, reason) == [cls |-> cls, reason |-> reason]

\* a fallback that calls a square frame tall
fallback_shape_square_tall(t) ==
    IF t.nrows >= Len(t.columns)
    THEN Classified("tall", <<"fallback: rows>cols">>)
    ELSE Classified("wide", <<"fallback: cols>=rows">>)

fallback_shape(t) ==
    IF t.nrows > Len(t.columns)
    THEN Classified("tall", <<"fallback: rows>cols">>)
    ELSE Classified("wide", <<"fallback: cols>=rows">>)

PatternReason(p) ==
    <<"wide: " \o IntToStr(p.size) \o " columns share base '" \o p.name[1]
      \o "' with time/index suffixes">>

ClassifyTall(t, tall) ==
    IF tall.flag THEN Classified("tall", <<"tall">> \o tall.reasons)
    ELSE fallback_shape(t)

ClassifyStructure(t, wide) ==
    IF wide.flag THEN Classified("wide", <<"wide">> \o wide.reasons)
    ELSE ClassifyTall(t, detect_tall_schema(t))

ClassifyPattern(t, p) ==
    IF p.strong THEN Classified("wide", PatternReason(p))
    ELSE ClassifyStructure(t, detect_wide_by_structure(t))

\* a classify without the degenerate case
classify_shape_only(t) ==
    ClassifyPattern(t, detect_wide_by_col_patterns(t.columns))

\* a classify whose structural detector comes after the tall detector
classify_tall_first(t) ==
    IF t.nrows = 0 \/ Len(t.columns) = 0
    THEN Classified("unknown", <<"empty/degenerate data frame">>)
    ELSE IF detect_wide_by_col_patterns(t.columns).strong
         THEN Classified("wide",
                         PatternReason(detect_wide_by_col_patterns(t.columns)))
    ELSE IF detect_tall_schema(t).flag
         THEN Classified("tall", <<"tall">> \o detect_tall_schema(t).reasons)
    ELSE IF detect_wide_by_structure(t).flag
         THEN Classified("wide", <<"wide">> \o detect_wide_by_structure(t).reasons)
    ELSE fallback_shape(t)

\* a classify whose pattern detector comes after the structural detector
\* and the tall detector
classify_pattern_last(t) ==
    IF t.nrows = 0 \/ Len(t.columns) = 0
    THEN Classified("unknown", <<"empty/degenerate data frame">>)
    ELSE IF detect_wide_by_structure(t).flag
         THEN Classified("wide", <<"wide">> \o detect_wide_by_structure(t).reasons)
    ELSE IF detect_tall_schema(t).flag
         THEN Classified("tall", <<"tall">> \o detect_tall_schema(t).reasons)
    ELSE IF detect_wide_by_col_patterns(t.columns).strong
         THEN Classified("wide",
                         PatternReason(detect_wide_by_col_patterns(t.columns)))
    ELSE fallback_shape(t)

classify(t) ==
    IF t.nrows = 0 \/ Len(t.columns) = 0
    THEN Classified("unknown", <<"empty/degenerate data frame">>)
    ELSE ClassifyPattern(t, detect_wide_by_col_patterns(t.columns))

(***************************************************************************)
(* Classifier specification: a frame starts as one of a few layouts with a *)
(* row count and a profile of its text columns (every value distinct, half *)
(* as many values as rows, the same with a null), gets further columns     *)
(* (numeric ones first, then text ones that hold one value), and classify  *)
(* runs on it.                                                             *)
(***************************************************************************)
MaxPad == 20

RowCounts == {0, 4, 40, 41, 100}

Profiles == {"distinct", "half", "half_null", "third"}

ShapeLayouts ==
    { [columns |-> <<"name", "revenue_2019", "revenue_2020", "revenue_2021">>,
       numeric |-> <<FALSE, TRUE, TRUE, TRUE>>],
      [columns |-> <<"sales_Q1", "sales_Q2", "cost-jan", "cost-Feb", "cost mar">>,
       numeric |-> <<TRUE, TRUE, TRUE, TRUE, TRUE>>],
      [columns |-> <<"country", "2019", "2020", "2021">>,
       numeric |-> <<FALSE, TRUE, TRUE, TRUE>>],
      [columns |-> <<"id", "rev_2019", "rev_2020">>,
       numeric |-> <<FALSE, TRUE, TRUE>>],
      [columns |-> <<"id", "Metric", "Value">>,
       numeric |-> <<FALSE, FALSE, TRUE>>],
      [columns |-> <<"code", "description">>,
       numeric |-> <<FALSE, FALSE>>],
      [columns |-> <<>>, numeric |-> <<>>] }

DistinctValues(profile, nrows) ==
    IF profile = "distinct" THEN nrows
    ELSE IF profile = "third" THEN nrows \div 3
    ELSE nrows \div 2

NullValues(profile, nrows) ==
    IF profile = "half_null" /\ nrows > 0 THEN 1 ELSE 0

Frame(layout, nrows, profile) ==
    [columns |-> layout.columns,
     numeric |-> layout.numeric,
     nunique |-> [i \in 1..Len(layout.columns) |->
                     IF layout.numeric[i] THEN 0
                     ELSE DistinctValues(profile, nrows)],
     nulls   |-> [i \in 1..Len(layout.columns) |->
                     IF layout.numeric[i] THEN 0
                     ELSE NullValues(profile, nrows)],
     nrows   |-> nrows]

PadCount(cols, prefix) ==
    Cardinality({ i \in 1..Len(cols) : StartsWith(cols[i], prefix) })

PadName(prefix, k) == prefix \o Ch(Lowers, k)

WithColumn(t, name, numeric, nunique) ==
    [t EXCEPT !.columns = Append(@, name),
              !.numeric = Append(@, numeric),
              !.nunique = Append(@, nunique),
              !.nulls   = Append(@, 0)]

ShapeInit ==
    /\ df \in { Frame(l, n, p) : l \in ShapeLayouts, n \in RowCounts,
                                 p \in Profiles }
    /\ phase = "frame"
    /\ out = NoResult
    /\ HeaderIdle

AddNumericColumn ==
    /\ phase = "frame"
    /\ PadCount(df.columns, "t_") = 0
    /\ PadCount(df.columns, "n_") < MaxPad
    /\ df' = WithColumn(df, PadName("n_", PadCount(df.columns, "n_") + 1),
                        TRUE, 0)
    /\ UNCHANGED <<phase, out, hdr, hwords, hphase, hres>>

AddTextColumn ==
    /\ phase = "frame"
    /\ PadCount(df.columns, "n_") + PadCount(df.columns, "t_") < MaxPad
    /\ df' = WithColumn(df, PadName("t_", PadCount(df.columns, "t_") + 1),
                        FALSE, Min(1, df.nrows))
    /\ UNCHANGED <<phase, out, hdr, hwords, hphase, hres>>

Classify ==
    /\ phase = "frame"
    /\ out' = classify(df)
    /\ phase' = "classify"
    /\ UNCHANGED <<df, hdr, hwords, hphase, hres>>

ShapeNext == AddNumericColumn \/ AddTextColumn \/ Classify

SpecClassify == ShapeInit /\ [][ShapeNext]_vars

(***************************************************************************)
(* Properties of the classifier                                            *)
(***************************************************************************)
Degenerate == df.nrows = 0 \/ Len(df.columns) = 0

\* C17: classify returns unknown exactly for a frame with zero rows or zero
\* columns, also when its column names would fire the pattern detector, and
\* every other frame is classified tall or wide.
C17_UnknownIffDegenerate ==
    phase = "classify" =>
        /\ out.cls = "unknown" <=> Degenerate
        /\ out.cls \in {"unknown", "tall", "wide"}

C17_Witness ==
    /\ phase = "classify"
    /\ df.nrows = 0
    /\ "revenue_2021" \in Range(df.columns)
    /\ out.cls = "unknown"

\* the length of the longest period suffix at the end of c, tried from n
\* down, that leaves a base; 0 when there is none
RECURSIVE SuffixLen(_, _)
SuffixLen(c, n) ==
    IF n = 0 THEN 0
    ELSE IF n < Len(c) /\ IsPeriodSuffix(SubSeq(c, Len(c) - n + 1, Len(c)))
         THEN n
         ELSE SuffixLen(c, n - 1)

DropSeparator(b) ==
    IF Len(b) > 1 /\ Ch(b, Len(b)) \in {"_", "-"}
    THEN SubSeq(b, 1, Len(b) - 1) ELSE b

\* the names of the frame that end in a period suffix, and the base of one
Suffixed == { i \in 1..Len(df.columns) : SuffixLen(df.columns[i], 4) > 0 }

StrippedBase(i) ==
    Strip(DropSeparator(SubSeq(df.columns[i], 1,
              Len(df.columns[i]) - SuffixLen(df.columns[i], 4))))

GroupOf(b) == { i \in Suffixed : StrippedBase(i) = b }

GroupBases == { StrippedBase(i) : i \in Suffixed }

PatternFires ==
    \E b \in GroupBases : Cardinality(GroupOf(b)) >= MIN_WIDE_SUFFIX_GROUP

IsLargest(b) ==
    \A g \in GroupBases : Cardinality(GroupOf(g)) <= Cardinality(GroupOf(b))

\* C18: on a frame that is not degenerate and in which three names or more
\* share a base once the period suffix and one optional separator are
\* stripped, classify returns wide and its reason names the base and the
\* size of the largest group, whatever the other detectors would return.
C18_PatternWins ==
    (phase = "classify" /\ ~Degenerate /\ PatternFires) =>
        /\ out.cls = "wide"
        /\ \E b \in GroupBases :
              /\ IsLargest(b)
              /\ out.reason =
                   <<"wide: " \o IntToStr(Cardinality(GroupOf(b)))
                     \o " columns share base '" \o b
                     \o "' with time/index suffixes">>

\* revenue_2019..2021 on a frame the tall detector would call tall
C18_Witness ==
    /\ phase = "classify"
    /\ detect_tall_schema(df).flag
    /\ ~detect_wide_by_structure(df).flag
    /\ out = Classified("wide",
               <<"wide: 3 columns share base 'revenue' with time/index suffixes">>)

StructuralRule ==
    \/ /\ 5 * Cardinality({ i \in 1..Len(df.columns) : df.numeric[i] })
              >= 3 * Len(df.columns)
       /\ Len(df.columns) >= 8
    \/ /\ Len(df.columns) >= 20
       /\ 2 * Len(df.columns) >= df.nrows

\* C19: on a frame that is not degenerate and on which the pattern detector
\* does not fire, classify returns wide if 60% of at least 8 columns are
\* numeric or if there are at least 20 columns and columns / rows >= 0.5,
\* however many tall votes the frame collects; the thresholds are inclusive.
C19_StructuralWide ==
    (phase = "classify" /\ ~Degenerate /\ ~PatternFires /\ StructuralRule)
        => out.cls = "wide"

\* 20 columns on 40 rows, fewer than 60% numeric, two tall votes or more
C19_Witness ==
    /\ phase = "classify"
    /\ ~PatternFires
    /\ Len(df.columns) = 20
    /\ df.nrows = 40
    /\ ~ManyNumeric(Cardinality(NumericCols(df)), Len(df.columns))
    /\ detect_tall_schema(df).flag
    /\ out.cls = "wide"

\* the five tall votes of a frame
TallVoteSet ==
    { v \in 1..5 :
        \/ v = 1 /\ \E i \in 1..Len(df.columns) :
                       Lower(df.columns[i]) \in likely_value_names
        \/ v = 2 /\ \E i \in 1..Len(df.columns) :
                       Lower(df.columns[i]) \in likely_variable_names
        \/ v = 3 /\ Cardinality({ i \in 1..Len(df.columns) : df.numeric[i] }) <= 2
        \/ v = 4 /\ long_repetition(df)
        \/ v = 5 /\ df.nrows > 5 * Len(df.columns) /\ df.nrows >= 100 }

\* C20: on a frame that is not degenerate and on which neither wide detector
\* fires, classify returns tall exactly when two of the five tall votes or
\* more are awarded or, failing that, when there are more rows than columns;
\* in every other case, rows = columns included, it returns wide.
C20_TallDecision ==
    (phase = "classify" /\ ~Degenerate /\ ~PatternFires /\ ~StructuralRule) =>
        /\ out.cls = "tall" <=>
              (Cardinality(TallVoteSet) >= 2 \/ df.nrows > Len(df.columns))
        /\ out.cls \in {"tall", "wide"}

\* as many rows as columns and one tall vote
C20_Witness ==
    /\ phase = "classify"
    /\ df.nrows = Len(df.columns)
    /\ df.nrows > 0
    /\ Cardinality(TallVoteSet) = 1
    /\ out = Classified("wide", <<"fallback: cols>=rows">>)

(***************************************************************************)
(* Properties of the banner detection                                      *)
(***************************************************************************)
\* the header to_tall hands to maybe_top_metadata
HeaderOfTable == NormalizedColumns(df.columns)

\* a name of the pricing vocabulary
InVocabulary(n) ==
    \/ StartsWith(n, "standard_charge")
    \/ n \in {"code", "code|1", "code|1|type", "payer_name", "plan_name"}

HeaderMatches == \E n \in Range(HeaderOfTable) : InVocabulary(n)

\* C21: if a normalized name of the header starts with standard_charge or is
\* one of code, code|1, code|1|type, payer_name, plan_name, the banner
\* detection returns the table unchanged (same header, same rows in the same
\* order) with an empty metadata blob.
C21_RealHeaderKept ==
    (phase = "to_tall" /\ HeaderMatches) =>
        /\ out.columns = HeaderOfTable
        /\ out.data = df.rows
        /\ out.metadata = <<>>

\* two rows under a header whose only known name is code|1
C21_Witness ==
    /\ phase = "to_tall"
    /\ df.columns = <<"code|1", "code|1|type", "description">>
    /\ Len(df.rows) = 2
    /\ out.data = df.rows
    /\ out.metadata = <<>>

(***************************************************************************)
(* Banner specification: read_csv_any reads a file line by line, the first *)
(* line giving the column names and every further line a row, then to_tall *)
(* runs on the frame.  The lines of the model all have four cells (a       *)
(* banner line ends in empty cells, whose columns pandas names             *)
(* "Unnamed: 2" and "Unnamed: 3").                                         *)
(***************************************************************************)
MaxLines == 3

BannerLine1 == <<"Hospital Name", "Main St Hospital", "Unnamed: 2", "Unnamed: 3">>
BannerLine2 == <<"Last Updated", "2024-01-01", "", "">>
HeaderLine  == <<"description", "code|1", "code|1|type", "standard_charge|gross">>
DataLine    == <<"Office visit", "99213", "CPT", "100.00">>
BlankLine   == <<"", "", "", "">>

FirstLines == {BannerLine1, HeaderLine, <<"item", "rev code", "Unnamed: 2", "price">>}

LinePool == {BannerLine2, HeaderLine, DataLine, BlankLine}

BannerInit ==
    /\ df \in { [columns |-> h, rows |-> <<>>] : h \in FirstLines }
    /\ phase = "input"
    /\ out = NoResult
    /\ HeaderIdle

AddLine ==
    /\ phase = "input"
    /\ Len(df.rows) < MaxLines
    /\ \E line \in LinePool : df' = [df EXCEPT !.rows = Append(@, line)]
    /\ UNCHANGED <<phase, out, hdr, hwords, hphase, hres>>

BannerNext == AddLine \/ ToTall

SpecBanner == BannerInit /\ [][BannerNext]_vars

\* the file of the example: two banner lines, the header, the data
IsBannerFile ==
    /\ df.columns = BannerLine1
    /\ Len(df.rows) >= 2
    /\ df.rows[1] = BannerLine2
    /\ df.rows[2] = HeaderLine

\* every text of the blob: the keys and the values of its rows
BlobTexts ==
    UNION { UNION { { out.metadata[i][j][1], out.metadata[i][j][2] } :
                      j \in 1..Len(out.metadata[i]) } :
            i \in 1..Len(out.metadata) }

NonBlank(line) == { line[i] : i \in 1..Len(line) } \ {""}

\* C22: for a file whose first two lines are the banner lines [Hospital
\* Name, Main St Hospital] and [Last Updated, 2024-01-01] and whose third
\* line is the header [description, code|1, code|1|type, ...], the third
\* line is the header used for role resolution and melting, the lines after
\* it are the data rows, and the blob holds both banner lines verbatim and
\* not the header.
C22_BannerThenHeader ==
    (phase = "to_tall" /\ IsBannerFile) =>
        /\ out.columns = HeaderLine
        /\ out.data = SubSeq(df.rows, 3, Len(df.rows))
        /\ {"Hospital Name", "Main St Hospital"} \subseteq BlobTexts
        /\ NonBlank(BannerLine2) \subseteq BlobTexts
        /\ NonBlank(HeaderLine) \cap BlobTexts = {}

\* the rows maybe_top_metadata is claimed to take off the top
TopRows == SubSeq(df.rows, 1, Min(2, Len(df.rows)))

\* the non-empty cells of a row, with their columns
NonEmptyCells(r) ==
    SelectSeq([i \in 1..Len(r) |-> <<HeaderOfTable[i], r[i]>>],
              LAMBDA kv : kv[2] # "")

\* C23: whenever no header name matches the pricing vocabulary, the first
\* min(2, n) rows of the n-row table are captured into the blob (non-empty
\* cells only) and the table is returned with exactly those rows removed,
\* also when those rows are entirely blank and when n < 2, and no error is
\* raised.
C23_BannerRemoved ==
    (phase = "to_tall" /\ ~HeaderMatches) =>
        /\ ~out.raised
        /\ out.data = SubSeq(df.rows, Len(TopRows) + 1, Len(df.rows))
        /\ out.metadata =
             SelectSeq([i \in 1..Len(TopRows) |-> NonEmptyCells(TopRows[i])],
                       LAMBDA m : m # <<>>)

(***************************************************************************)
(* clean_one_file of clean-csv-hospitalData.py.  A file is the sequence of *)
(* its lines, each a string without the line end; the frame read from it   *)
(* is its header line and its data lines (pandas skips empty lines and     *)
(* raises EmptyDataError when no line is left).  The lines of the model    *)
(* hold no no-break space.                                                 *)
(***************************************************************************)
EXPECTED_TOKENS ==
    {"description", "code|", "code|1", "code|1|type", "code|2", "code|2|type",
     "standard_charge", "standard_charge|gross",
     "standard_charge|discounted_cash", "standard_charge|negotiated_dollar",
     "standard_charge|negotiated_percentage", "standard_charge|min",
     "standard_charge|max", "payer_name", "plan_name", "billing_class",
     "setting", "currency"}

ADMIN_HINTS ==
    {"hospital_name", "last_updated_on", "hospital_location",
     "hospital_address", "license_number|", "license_number|wa", "version",
     "to the best of its knowledge", "45 cfr 180.50", "attestation",
     "standard charge information"}

\* re.sub(r"\s+", " ", s).strip().lower()
normalize(s) == Lower(Strip(CollapseSpace(s, 1)))

TokensIn(h, tokens) == { tok \in tokens : Find(h, tok) > 0 }

ScoreOf(h) ==
    2 * Cardinality(TokensIn(h, EXPECTED_TOKENS))
        - Cardinality(TokensIn(h, ADMIN_HINTS))

score_header(raw_header_line) == ScoreOf(normalize(raw_header_line))

\* [f.readline() for _ in range(n)]: "" past the end of the file
first_lines(file, n) ==
    [i \in 1..n |-> IF i <= Len(file) THEN file[i] ELSE ""]

\* s.strip(" |")
RECURSIVE LStripBar(_)
LStripBar(s) ==
    IF s # "" /\ Head(s) \in {" ", "|"} THEN LStripBar(Tail(s)) ELSE s

RECURSIVE RStripBar(_)
RStripBar(s) ==
    IF s # "" /\ Ch(s, Len(s)) \in {" ", "|"}
    THEN RStripBar(SubSeq(s, 1, Len(s) - 1)) ELSE s

meta_text(lines) ==
    RStripBar(LStripBar(normalize(lines[1]) \o " | " \o normalize(lines[2])))

Cleaned(use_pass_B, rest, metadata) ==
    IF rest = <<>>
    THEN [raised |-> TRUE, use_pass_B |-> use_pass_B, header |-> "",
          rows |-> <<>>, metadata |-> ""]
    ELSE [raised |-> FALSE, use_pass_B |-> use_pass_B, header |-> Head(rest),
          rows |-> Tail(rest), metadata |-> metadata]

\* the lines read_csv_pass parses: those after skiprows that are not empty
read_csv_pass(file, skiprows) ==
    SelectSeq(SubSeq(file, skiprows + 1, Len(file)), LAMBDA l : l # "")

CleanPass(file, lines, use_pass_B) ==
    IF use_pass_B
    THEN Cleaned(TRUE, read_csv_pass(file, 2), meta_text(lines))
    ELSE Cleaned(FALSE, read_csv_pass(file, 0), "")

CleanLines(file, lines) ==
    CleanPass(file, lines, score_header(lines[3]) > score_header(lines[1]))

clean_one_file(file) == CleanLines(file, first_lines(file, 3))

(***************************************************************************)
(* Cleaning specification: a file is written line by line, then            *)
(* clean_one_file runs on it.                                              *)
(***************************************************************************)
MaxFileLines == 3

FileLines ==
    {"hospital_name,last_updated_on,version",
     "Hospital Name,Main St Hospital",
     "description,code|1,standard_charge|gross",
     "hospital_name,description",
     "Office visit,99213,100.00",
     ""}

CleanInit ==
    /\ df = [lines |-> <<>>]
    /\ phase = "file"
    /\ out = NoResult
    /\ HeaderIdle

WriteLine ==
    /\ phase = "file"
    /\ Len(df.lines) < MaxFileLines
    /\ \E l \in FileLines : df' = [df EXCEPT !.lines = Append(@, l)]
    /\ UNCHANGED <<phase, out, hdr, hwords, hphase, hres>>

CleanOneFile ==
    /\ phase = "file"
    /\ out' = clean_one_file(df.lines)
    /\ phase' = "clean_one_file"
    /\ UNCHANGED <<df, hdr, hwords, hphase, hres>>

CleanNext == WriteLine \/ CleanOneFile

SpecClean == CleanInit /\ [][CleanNext]_vars

\* the score of line i of the file: twice the pricing tokens minus the
\* administrative tokens that occur in the normalized line
LineScore(i) ==
    2 * Cardinality({ tok \in EXPECTED_TOKENS :
                        Find(normalize(df.lines[i]), tok) > 0 })
      - Cardinality({ tok \in ADMIN_HINTS :
                        Find(normalize(df.lines[i]), tok) > 0 })

\* C24: clean_one_file uses row 3 as the header, rows 1 and 2 going to the
\* metadata, exactly when score(row 3) > score(row 1), the score being twice
\* the pricing tokens minus the administrative tokens found in the line;
\* otherwise it uses row 1 with empty metadata; and it selects row 3 only
\* for a file that has a third line.
C24_ScoreSelectsHeader ==
    phase = "clean_one_file" =>
        /\ out.use_pass_B => Len(df.lines) >= 3
        /\ Len(df.lines) >= 3 =>
              (out.use_pass_B <=> LineScore(3) > LineScore(1))
        /\ (out.use_pass_B /\ ~out.raised /\ df.lines[3] # "") =>
              out.header = df.lines[3]
        /\ (~out.use_pass_B /\ ~out.raised /\ df.lines[1] # "") =>
              (out.header = df.lines[1] /\ out.metadata = "")

(***************************************************************************)
(* copy_to_single_table of load-csv-database.py.  public.hospital_prices   *)
(* is the sequence of its committed rows; a call opens a transaction       *)
(* (work, the table as the transaction sees it), deletes the rows of the   *)
(* file, copies the frame and commits.  A statement that raises ends the   *)
(* call in the finally clause: the connection is closed without a commit   *)
(* and the transaction is rolled back.  A row of the frame is its code,    *)
(* price_amount and payer_name; COPY ... NULL '' stores an empty cell as   *)
(* NULL.                                                                   *)
(***************************************************************************)
SourceFiles == {"a.csv", "b.csv.gz"}

TidyRows ==
    {<<"99213", "100.00", "Aetna">>, <<"99213", "80.00", "">>,
     <<"J1100", "12.50", "">>}

TidyFrames ==
    { <<r>> : r \in TidyRows } \cup
    { << <<"99213", "100.00", "Aetna">>, <<"99213", "80.00", "">> >>,
      << <<"J1100", "12.50", "">>, <<"J1100", "12.50", "">> >> }

\* FROM STDIN WITH (FORMAT CSV, NULL '')
CopiedCell(cell) == IF cell = "" THEN None ELSE Some(cell)

CopiedRow(row, source_file) ==
    [cells |-> [i \in 1..Len(row) |-> CopiedCell(row[i])],
     source_file |-> source_file]

CopiedRows(frame, source_file) ==
    [i \in 1..Len(frame) |-> CopiedRow(frame[i], source_file)]

\* a DELETE that removes nothing
DeleteNothing(table, source_file) == table

\* DELETE FROM public.hospital_prices WHERE source_file = %s
DeleteFile(table, source_file) ==
    SelectSeq(table, LAMBDA r : r.source_file # source_file)

NoLoads == [f \in SourceFiles |-> <<>>]

LoadInit ==
    /\ df = [table |-> <<>>, work |-> <<>>, frame |-> <<>>, source_file |-> ""]
    /\ phase = "idle"
    /\ out = [loaded |-> NoLoads]
    /\ HeaderIdle

\* the call starts: the frame is written to the buffer, the connection is
\* opened and the DELETE runs
CopyDelete ==
    /\ phase = "idle"
    /\ \E f \in SourceFiles, frame \in TidyFrames :
          df' = [df EXCEPT !.work = DeleteFile(df.table, f),
                           !.frame = frame, !.source_file = f]
    /\ phase' = "deleted"
    /\ UNCHANGED <<out, hdr, hwords, hphase, hres>>

CopyExpert ==
    /\ phase = "deleted"
    /\ df' = [df EXCEPT !.work = @ \o CopiedRows(df.frame, df.source_file)]
    /\ phase' = "copied"
    /\ UNCHANGED <<out, hdr, hwords, hphase, hres>>

\* conn.commit(); out.loaded keeps the frame of the last committed call of
\* each file
CopyCommit ==
    /\ phase = "copied"
    /\ df' = [table |-> df.work, work |-> <<>>, frame |-> <<>>,
              source_file |-> ""]
    /\ out' = [out EXCEPT !.loaded[df.source_file] = df.frame]
    /\ phase' = "idle"
    /\ UNCHANGED <<hdr, hwords, hphase, hres>>

\* a statement raises (the DELETE, the COPY or the commit): finally closes
\* the connection and the transaction is rolled back
CopyRaise ==
    /\ phase \in {"deleted", "copied"}
    /\ df' = [df EXCEPT !.work = <<>>, !.frame = <<>>, !.source_file = ""]
    /\ phase' = "idle"
    /\ UNCHANGED <<out, hdr, hwords, hphase, hres>>

LoadNext == CopyDelete \/ CopyExpert \/ CopyCommit \/ CopyRaise

SpecLoad == LoadInit /\ [][LoadNext]_vars

RowsOfFile(table, f) == SelectSeq(table, LAMBDA r : r.source_file = f)

\* C25: after any sequence of copy_to_single_table calls, the table holds
\* for each source file exactly the rows of the most recent successful call
\* for it (a repeated load replaces the earlier rows), the rows of other
\* files are untouched, and a call that fails before the commit leaves the
\* table as it was.
C25_LoadIdempotent ==
    \A f \in SourceFiles :
        RowsOfFile(df.table, f) = CopiedRows(out.loaded[f], f)

\* both files loaded, the first one twice with different frames
C25_Witness ==
    /\ phase = "idle"
    /\ out.loaded["a.csv"] = << <<"J1100", "12.50", "">> >>
    /\ Len(out.loaded["b.csv.gz"]) = 2
    /\ Len(df.table) = 3

(***************************************************************************)
(* main of the long loaders (hospital-loader_charge_long-loads-csvs.py and *)
(* hp_long_loader.py).  The connection is opened with autocommit=True, so  *)
(* every copy_rows is committed when it returns and conn.rollback() in the *)
(* except clause has nothing to undo.  A yielded row is its file and its   *)
(* position in the file's yield order.  The flush threshold of the code,   *)
(* 150_000 rows, is scaled down to BatchLimit.                             *)
(***************************************************************************)
BatchLimit == 2

MaxYield == 5

LongFiles == <<"a.csv", "b.csv">>

YieldedRow(f, k) == [file_name |-> f, k |-> k]

\* copy_rows under autocommit: the rows are in the table when it returns
copy_rows(table, rows) == table \o rows

LongIdle ==
    [table |-> <<>>, file |-> 1, nyield |-> 0, yielded |-> 0,
     batch |-> <<>>, batch_rows |-> 0, total_rows |-> 0]

LongInit ==
    /\ df = LongIdle
    /\ phase = "next_file"
    /\ out = [copied |-> <<>>, failed |-> {}, finished |-> {}]
    /\ HeaderIdle

\* the try block up to the loop over the chunks; the file will yield n rows
StartFile ==
    /\ phase = "next_file"
    /\ df.file <= Len(LongFiles)
    /\ \E n \in 0..MaxYield :
          df' = [df EXCEPT !.nyield = n, !.yielded = 0, !.batch = <<>>,
                           !.batch_rows = 0, !.total_rows = 0]
    /\ out' = [out EXCEPT !.copied = <<>>]
    /\ phase' = "streaming"
    /\ UNCHANGED <<hdr, hwords, hphase, hres>>

\* the body of the loop over the yielded rows, batch being the buffer with
\* the new row
Buffered(d, batch) ==
    IF Len(batch) >= BatchLimit
    THEN [d EXCEPT !.table = copy_rows(d.table, batch), !.batch = <<>>,
                   !.batch_rows = 0, !.total_rows = @ + 1,
                   !.yielded = @ + 1]
    ELSE [d EXCEPT !.batch = batch, !.batch_rows = Len(batch),
                   !.total_rows = @ + 1, !.yielded = @ + 1]

Flushed(copied, batch) ==
    IF Len(batch) >= BatchLimit THEN Append(copied, batch) ELSE copied

YieldRow ==
    /\ phase = "streaming"
    /\ df.yielded < df.nyield
    /\ df' = Buffered(df, Append(df.batch,
                 YieldedRow(LongFiles[df.file], df.yielded + 1)))
    /\ out' = [out EXCEPT !.copied =
                 Flushed(@, Append(df.batch,
                     YieldedRow(LongFiles[df.file], df.yielded + 1)))]
    /\ UNCHANGED <<phase, hdr, hwords, hphase, hres>>

\* after the loop: the final copy (the buffer is not cleared after it)
EndFile ==
    /\ phase = "streaming"
    /\ df.yielded = df.nyield
    /\ df' = [df EXCEPT !.table = IF df.batch_rows > 0
                                  THEN copy_rows(@, df.batch) ELSE @,
                        !.file = @ + 1]
    /\ out' = [out EXCEPT !.copied = IF df.batch_rows > 0
                                     THEN Append(@, df.batch) ELSE @,
                          !.finished = @ \cup {<<LongFiles[df.file], df.nyield>>}]
    /\ phase' = "next_file"
    /\ UNCHANGED <<hdr, hwords, hphase, hres>>

\* a statement of the try block raises: conn.rollback(), then continue
SkipFile ==
    /\ phase = "streaming"
    /\ df' = [df EXCEPT !.file = @ + 1]
    /\ out' = [out EXCEPT !.failed = @ \cup {LongFiles[df.file]}]
    /\ phase' = "next_file"
    /\ UNCHANGED <<hdr, hwords, hphase, hres>>

LongNext == StartFile \/ YieldRow \/ EndFile \/ SkipFile

SpecLongLoad == LongInit /\ [][LongNext]_vars

RowsOfLongFile(f) == SelectSeq(df.table, LAMBDA r : r.file_name = f)

YieldedRows(f, n) == [k \in 1..n |-> YieldedRow(f, k)]

\* C26: when processing a file raises after some of its batches were
\* copied, that file's partial work is rolled back: none of its rows remain
\* in the table, the rows of the files loaded earlier are kept, and the loop
\* goes on with the next file.
C26_FailedFileLeavesNoRows ==
    /\ \A f \in out.failed : RowsOfLongFile(f) = <<>>
    /\ \A fn \in out.finished : RowsOfLongFile(fn[1]) = YieldedRows(fn[1], fn[2])

\* the file before the current position was processed without error
FileDone ==
    /\ phase = "next_file"
    /\ df.file > 1
    /\ <<LongFiles[df.file - 1], df.nyield>> \in out.finished

RECURSIVE SumLen(_)
SumLen(batches) ==
    IF batches = <<>> THEN 0 ELSE Len(Head(batches)) + SumLen(Tail(batches))

\* C29: for a file processed without error, every yielded row is passed to
\* copy_rows in exactly one batch, in yield order; no batch holds more rows
\* than the threshold; the buffer is empty after each flush and at the end
\* of the file; total_rows is the sum of the sizes of the copied batches.
C29_BatchFlushing ==
    /\ \A i \in 1..Len(out.copied) : Len(out.copied[i]) <= BatchLimit
    /\ phase = "streaming" =>
          /\ Flatten(out.copied) \o df.batch
                = YieldedRows(LongFiles[df.file], df.yielded)
          /\ Len(df.batch) < BatchLimit
    /\ FileDone =>
          /\ Flatten(out.copied) = YieldedRows(LongFiles[df.file - 1], df.nyield)
          /\ df.total_rows = SumLen(out.copied)
          /\ df.batch = <<>>

\* the cells of data row i under the columns named by one of the synonyms
\* syns that are not blank
NamedCells(i, syns) ==
    { df.rows[i][j] : j \in { k \in 1..Len(df.columns) :
          /\ Lower(Strip(df.columns[k])) \in Range(syns)
          /\ ~IsBlankCell(df.rows[i][k]) } }

HasExplicitPayerPlan ==
    /\ \E j \in 1..Len(df.columns) :
          Lower(Strip(df.columns[j])) \in Range(ROWWISE_SYNS.payer_name)
    /\ \E j \in 1..Len(df.columns) :
          Lower(Strip(df.columns[j])) \in Range(ROWWISE_SYNS.plan_name)

\* C27: for a chunk with explicit payer and plan columns (any of the
\* payer_name / plan_name synonyms), every row yielded for a data row carries
\* that data row's non-blank payer and plan values as payer_name and
\* plan_name, also when the chunk has columns such as
\* standard_charge|negotiated_dollar, standard_charge|min, standard_charge|max.
C27_RowwisePayerPlan ==
    (phase = "yield_tall_rows" /\ HasExplicitPayerPlan) =>
        \A i \in 1..Len(df.rows) :
            /\ Len(out[i]) >= 1
            /\ \A n \in 1..Len(out[i]) :
                  /\ \A v \in NamedCells(i, ROWWISE_SYNS.payer_name) :
                        out[i][n].payer_name = v
                  /\ \A v \in NamedCells(i, ROWWISE_SYNS.plan_name) :
                        out[i][n].plan_name = v

\* the code slots of the source layouts: a code column and its type column
SlotPairs ==
    { <<"code|1", "code|1|type">>, <<"code|2", "code|2|type">>,
      <<"code|3", "code|3|type">>, <<"code|4", "code|4|type">>,
      <<"code", "code_type">> }

\* the stripped cell of record k's data row under column name, "" without it
SlotCell(k, name) ==
    IF name \in Range(out.columns)
    THEN Strip(DataRow(k)[ColIndex(out.columns, name)]) ELSE ""

\* C28: the code_type of every record emitted by to_tall or
\* melt_and_normalize is the normalized type of the same code slot that
\* supplied the record's code; a code taken from slot k is never paired with
\* the type of a different slot.
C28_SlotConsistency ==
    (Melted /\ ~out.raised) =>
        \A k \in 1..Len(out.tall) :
            (out.keep[k] /\ out.tall[k].code # "") =>
                \E p \in SlotPairs :
                    /\ p[1] \in Range(out.columns)
                    /\ SlotCell(k, p[1]) = out.tall[k].code
                    /\ out.tall[k].code_type = norm_type(SlotCell(k, p[2]))

\* column i is not numeric, has no missing value and exactly nrows/2
\* distinct values
HalfDistinct(i) ==
    ~df.numeric[i] /\ df.nulls[i] = 0 /\ 2 * df.nunique[i] = df.nrows

\* C30: the repeated-ID vote of detect_tall_schema is awarded only if some
\* non-numeric column has no missing values and exactly nrows/2 distinct
\* values; it is never awarded for a table with an odd number of rows, nor
\* for a column whose values each repeat three times or more.
C30_RepeatedIdVote ==
    phase = "classify" =>
        /\ long_repetition(df) => \E i \in 1..Len(df.columns) : HalfDistinct(i)
        /\ "repeated IDs" \in Range(detect_tall_schema(df).reasons) =>
              \E i \in 1..Len(df.columns) : HalfDistinct(i)
        /\ "repeated IDs" \in Range(out.reason) =>
              \E i \in 1..Len(df.columns) : HalfDistinct(i)
        /\ df.nrows % 2 = 1 => ~long_repetition(df)
        /\ \A i \in 1..Len(df.columns) :
              3 * df.nunique[i] <= df.nrows => ~RepeatedId(df, i)

\* a frame classified as tall with the repeated-ID vote among its reasons
C30_Witness ==
    /\ phase = "classify"
    /\ out.cls = "tall"
    /\ "repeated IDs" \in Range(out.reason)
    /\ \E i \in 1..Len(df.columns) : HalfDistinct(i) /\ RepeatedId(df, i)

===========================================================================
